---- MODULE Spec2Model ----
(***************************************************************************)
(* Session lifecycle and pending-message queue of the WhatsApp gateway     *)
(* (server: src/unnamed/part_003, lib/messageQueue.js,                     *)
(* lib/sessionManager.js, lib/config.js = src/unnamed/part_001).           *)
(*                                                                         *)
(* One instance id is modelled; the code keeps no state that couples two   *)
(* instance ids on the paths modelled here.  Every `await` of a handler    *)
(* is a point where other handlers may run, so a handler is a task with a  *)
(* program counter and one action per stretch of code between two awaits.  *)
(* A database statement takes effect when its await returns.               *)
(*                                                                         *)
(* Of a SessionState the model keeps client, status, isReconnecting and    *)
(* whether its intervals are armed.  reconnectAttempts is left out: the    *)
(* code reads it only to compute the delay of a restart timer, and a timer *)
(* of the model fires after any delay.  Clock-dependent conditions of the  *)
(* monitors (inactivity, loading too long, no ping) are inputs of the      *)
(* environment.  The age of a queued message is counted in clock ticks.    *)
(***************************************************************************)
EXTENDS Integers, Sequences, FiniteSets, Bags

(* ---------------------------------------------------------------------- *)
(* Bounds of the model                                                     *)
(* ---------------------------------------------------------------------- *)
\* how many messages are ever enqueued
MaxMsgs == 3
\* how many array objects (queues of the instance, live or stale) coexist
MaxArrays == 2
\* how many processQueue invocations run at the same time
MaxDrains == 2

(* ---------------------------------------------------------------------- *)
(* MessageQueue configuration (constructor), scaled to the model           *)
(* ---------------------------------------------------------------------- *)
\* this.maxQueueSize (100 in the constructor, settable through configure)
maxQueueSize == 2
\* this.maxRetries
maxRetries == 2
\* this.messageTimeout, in clock ticks
messageTimeout == 2

\* how many handler invocations are in flight (between two awaits, or waiting
\* for their timer) at the same time
MaxTasks == 2
\* how many messages POST /api/send-text queues
MaxQueued == 2
\* how many requests, adapter events and detected failures occur
MaxEvents == 4
\* how many Client objects coexist
MaxClients == 2
\* how many reconnects of one failure episode are followed
MaxAttempt == 12

(* ---------------------------------------------------------------------- *)
(* lib/config.js                                                           *)
(* ---------------------------------------------------------------------- *)
NO_RECONNECT_REASONS == {"LOGOUT", "TOS_BLOCK", "SMB_TOS_BLOCK", "BANNED"}

\* the reasons the adapter is taken to give with 'disconnected'
DisconnectReasons == {"LOGOUT", "BANNED", "NAVIGATION"}

MsgIds == 1..MaxMsgs
CliIds == 1..MaxClients
ArrIds == 1..MaxArrays
DrainIds == 1..MaxDrains

VARIABLES
    \* ---- MessageQueue ----
    queues,      \* this.queues.get(instanceId): 0 (no entry) or the id of an array
    arrays,      \* the array objects: array id -> sequence of message ids
    messages,    \* the message objects: id -> [age, retries]
    nextMsg,     \* number of messages created so far
    drains,      \* running processQueue invocations
    lastEnq,     \* what the last enqueue returned and logged
    \* ---- server ----
    booted,      \* initDB has run (the HTTP server listens, the monitors run)
    enabled,     \* instances.enabled of the instance's row
    sessions,    \* sessionManager.sessions at instanceId: <<>> or <<SessionState>>
    clients,     \* the Client objects: "free", "live", "silent" or "dead"
    tasks,       \* bag of handler invocations suspended at an await or a timer
    resp,        \* the response POST /api/send-text wrote in the last step
    events,      \* how many requests, adapter events and failures occurred
    noRestart    \* history: "NO_RECONNECT" once the 'disconnected' handler has
                 \* disabled the instance, "DISABLED" once its restart timer has
                 \* found the row disabled; "" again after an enable or start
                 \* request
VARIABLES
    \* ---- restart delays ----
    backoff      \* the reason of the running failure episode, the attempt
                 \* count the next delay is computed with, the delay computed
                 \* last and the one before it
VARIABLES
    \* ---- the reconnect attempt count ----
    recon,       \* the registered SessionState as far as the count goes, the
                 \* reconnect under way, and what it read and computed
    \* ---- a session that is loading, and the sweeps ----
    load,        \* status and age since loadingStartTime of the session, the
                 \* state of its browser, and the reconnect scheduled for it
    \* ---- the metadata store under failure ----
    db,          \* the pool, whether its queries resolve, the instance's row,
                 \* its session and the restart timer pending for it
    \* ---- ShutdownHandler ----
    shut,        \* what is registered with the handler and how far
                 \* _handleShutdown has come
    \* ---- the promotion poll of 'authenticated' ----
    promo,       \* the status of the session and the polling chains that the
                 \* 'authenticated' events have started
    \* ---- the heartbeat of a CONNECTED session ----
    beat,        \* the adapter's state, the failure counters of the session, the time since
                 \* its last successful ping and the reconnect its probes have triggered
    \* ---- the steps of a reconnect ----
    tear,        \* the session and its client while forceReconnect or handleConnectionLoss
                 \* tears it down, and what the instance's row holds
    \* ---- the auth-blob store and its strategy ----
    auth,        \* RemoteAuth over MysqlStore for one session name (see NoAuth)
    \* ---- probe timers and the sessions they were armed for ----
    probe,       \* the SessionState objects made for the instance, which of them is
                 \* registered, and whose keepAlive interval is armed (see NoProbe)
    \* ---- the instance while the process shuts down ----
    quiet        \* the registered session, its probe timers, the restart timer pending and
                 \* how far the shutdown has come (see NoQuiet)

vars == <<queues, arrays, messages, nextMsg, drains, lastEnq,
          booted, enabled, sessions, clients, tasks, resp, noRestart, events,
          backoff, recon, load, db, shut, promo, beat, tear, auth, probe, quiet>>

\* a processQueue invocation: its `queue` (a), the `message` it handed to the
\* send function (m) and the age that message had then (d), the client its
\* send function is bound to (c), its counters, and the reason it gave with
\* the last failure it reported (why)
IdleDrain == [pc |-> "idle", a |-> 0, m |-> 0, d |-> 0, c |-> 0,
              processed |-> 0, failed |-> 0, why |-> ""]

NewMessage == [age |-> 0, retries |-> 0]

NoEnq == [queued |-> FALSE, position |-> 0, messageId |-> 0, full |-> FALSE]

(* ---------------------------------------------------------------------- *)
(* Helpers on sequences and on the object store                            *)
(* ---------------------------------------------------------------------- *)
Shift(s) == IF s = <<>> THEN s ELSE Tail(s)

RECURSIVE Filter(_, _)
Filter(s, keep) ==
    IF s = <<>> THEN <<>>
    ELSE IF Head(s) \in keep THEN <<Head(s)>> \o Filter(Tail(s), keep)
         ELSE Filter(Tail(s), keep)

Elems(s) == {s[k] : k \in 1..Len(s)}

\* is array a the instance's queue or the `queue` of a running processQueue
Held(a, dr) == \E k \in DrainIds : dr[k].pc # "idle" /\ dr[k].a = a
FreeArrays == {a \in ArrIds : queues # a /\ ~Held(a, drains)}
NewArray == CHOOSE a \in FreeArrays : \A b \in FreeArrays : a <= b

\* garbage array objects (no map entry, no running drain) are cleared
NormArrays(arr, q, dr) ==
    [a \in ArrIds |-> IF q = a \/ Held(a, dr) THEN arr[a] ELSE <<>>]

\* garbage message objects (in no array, in no drain's `message`) are cleared
NormMsgs(msgs, arr, dr) ==
    LET live == UNION {Elems(arr[a]) : a \in ArrIds}
                 \cup {dr[k].m : k \in {j \in DrainIds : dr[j].pc = "sending"}}
    IN  [id \in MsgIds |-> IF id \in live THEN msgs[id] ELSE NewMessage]

\* the new state of the MessageQueue object
Commit(q, arr, msgs, dr) ==
    LET arr2 == NormArrays(arr, q, dr)
    IN  /\ queues' = q
        /\ drains' = dr
        /\ arrays' = arr2
        /\ messages' = NormMsgs(msgs, arr2, dr)

(* ---------------------------------------------------------------------- *)
(* MessageQueue.enqueue                                                    *)
(* ---------------------------------------------------------------------- *)
\* (variant) an enqueue that drops the head only past the capacity
OverflowsPast(q) == Len(q) > maxQueueSize

\* queue.length >= this.maxQueueSize: the head is dropped
Overflows(q) == Len(q) >= maxQueueSize

\* (variant) an overflow that drops the newest message of the queue
AfterOverflowNewest(q) ==
    IF Overflows(q) THEN SubSeq(q, 1, Len(q) - 1) ELSE q

AfterOverflow(q) == IF Overflows(q) THEN Shift(q) ELSE q

\* the array after enqueue of the message object `id`
Enqueued(q, id) == Append(AfterOverflow(q), id)

CanEnqueue == nextMsg < MaxMsgs /\ (queues = 0 => FreeArrays # {})

\* the state change of enqueue(instanceId, message) and what it returns
DoEnqueue ==
    LET a == IF queues = 0 THEN NewArray ELSE queues
        q == IF queues = 0 THEN <<>> ELSE arrays[a]
        id == nextMsg + 1
        q2 == Enqueued(q, id)
    IN  /\ Commit(a, [arrays EXCEPT ![a] = q2],
                  [messages EXCEPT ![id] = NewMessage], drains)
        /\ nextMsg' = id
        /\ lastEnq' = [queued |-> TRUE, position |-> Len(q2), messageId |-> id,
                       full |-> Overflows(q)]

(* ---------------------------------------------------------------------- *)
(* MessageQueue.processQueue                                               *)
(* ---------------------------------------------------------------------- *)
\* (variant) an expiry test that allows one tick more
ExpiredLate(id) == messages[id].age > messageTimeout + 1

\* Date.now() - message.createdAt > this.messageTimeout
Expired(id) == messages[id].age > messageTimeout

\* (the log line "Fila cheia ... removendo mensagem mais antiga" is lastEnq.full)

\* the loop from its top to the first `await`: expired heads are shifted out
\* and counted, then either the head is handed to sendFunction or the loop ends
RECURSIVE DropExpired(_)
DropExpired(q) ==
    IF q = <<>> THEN q
    ELSE IF Expired(Head(q)) THEN DropExpired(Tail(q))
         ELSE q

\* what a drain working on array a, whose content is q, does from the top of
\* the loop: its new record and the new content of a
LoopStep(a, q, processed, failed, c, why) ==
    LET q2 == DropExpired(q)
        f2 == failed + (Len(q) - Len(q2))
        w2 == IF Len(q2) < Len(q) THEN "EXPIRED" ELSE why
    IN  IF q2 = <<>>
        THEN [dr |-> [IdleDrain EXCEPT !.pc = "done", !.a = a, !.c = c,
                                       !.processed = processed, !.failed = f2,
                                       !.why = w2],
              q |-> q2]
        ELSE [dr |-> [pc |-> "sending", a |-> a, m |-> Head(q2),
                      d |-> messages[Head(q2)].age, c |-> c,
                      processed |-> processed, failed |-> f2, why |-> w2],
              q |-> q2]

FreeDrains == {k \in DrainIds : drains[k].pc = "idle"}
NewDrain == CHOOSE k \in FreeDrains : \A j \in FreeDrains : k <= j

\* processQueue(instanceId, sendFunction) up to its first await; c is the
\* client the send function is bound to (0: any send function)
CanProcessQueue == queues # 0 /\ arrays[queues] # <<>> /\ FreeDrains # {}

DoProcessQueue(c) ==
    LET r == LoopStep(queues, arrays[queues], 0, 0, c, "")
    IN  Commit(queues, [arrays EXCEPT ![queues] = r.q], messages,
               [drains EXCEPT ![NewDrain] = r.dr])

\* `await sendFunction(message)` resolved: shift, count, then sleep 500 ms
SendSucceeded(k) ==
    /\ drains[k].pc = "sending"
    /\ drains[k].c # 0 => clients[drains[k].c] # "dead"
    /\ Commit(queues, [arrays EXCEPT ![drains[k].a] = Shift(@)], messages,
              [drains EXCEPT ![k].pc = "pause", ![k].m = 0, ![k].d = 0,
                             ![k].processed = @ + 1])
    /\ nextMsg' = nextMsg /\ lastEnq' = NoEnq

\* message.retries >= this.maxRetries
RetriesExhausted(n) == n >= maxRetries

\* `await sendFunction(message)` rejected: retries++, then either give the
\* message up (shift, failed++, loop on at once) or sleep retryDelay
SendFailed(k) ==
    /\ drains[k].pc = "sending"
    /\ LET a == drains[k].a
           m == drains[k].m
           n == messages[m].retries + 1
           msgs2 == [messages EXCEPT ![m].retries = n]
           r == LoopStep(a, Shift(arrays[a]), drains[k].processed,
                         drains[k].failed + 1, drains[k].c, "ERROR")
       IN  IF RetriesExhausted(n)
           THEN Commit(queues, [arrays EXCEPT ![a] = r.q], msgs2,
                       [drains EXCEPT ![k] = r.dr])
           ELSE Commit(queues, arrays, msgs2,
                       [drains EXCEPT ![k].pc = "retrywait", ![k].m = 0, ![k].d = 0])
    /\ nextMsg' = nextMsg /\ lastEnq' = NoEnq

\* processQueue has returned {processed, failed} and its caller has logged it
Returned(k) ==
    /\ drains[k].pc = "done"
    /\ Commit(queues, arrays, messages, [drains EXCEPT ![k] = IdleDrain])
    /\ nextMsg' = nextMsg /\ lastEnq' = NoEnq

\* the sleep after a send (500 ms) or before a retry (retryDelay) is over
Resume(k) ==
    /\ drains[k].pc \in {"pause", "retrywait"}
    /\ LET a == drains[k].a
           r == LoopStep(a, arrays[a], drains[k].processed, drains[k].failed,
                         drains[k].c, drains[k].why)
       IN  Commit(queues, [arrays EXCEPT ![a] = r.q], messages,
                  [drains EXCEPT ![k] = r.dr])
    /\ nextMsg' = nextMsg /\ lastEnq' = NoEnq

(* ---------------------------------------------------------------------- *)
(* MessageQueue.clearQueue, cleanupExpired; the clock                      *)
(* ---------------------------------------------------------------------- *)
\* this.queues.delete(instanceId)
DoClearQueue == Commit(0, arrays, messages, drains)

\* now - msg.createdAt < this.messageTimeout
Fresh(id) == messages[id].age < messageTimeout

\* cleanupExpired: a filtered copy replaces the array, only when it is shorter
CleanupExpired ==
    /\ queues # 0
    /\ LET old == arrays[queues]
           filtered == Filter(old, {id \in MsgIds : Fresh(id)})
       IN  /\ Len(filtered) # Len(old)
           /\ IF Held(queues, drains)
              THEN /\ FreeArrays # {}
                   /\ Commit(NewArray, [arrays EXCEPT ![NewArray] = filtered],
                             messages, drains)
              ELSE Commit(queues, [arrays EXCEPT ![queues] = filtered],
                          messages, drains)
    /\ nextMsg' = nextMsg /\ lastEnq' = NoEnq

\* the messages some array or some drain still refers to
LiveMsgs ==
    UNION {Elems(arrays[a]) : a \in ArrIds}
      \cup {drains[k].m : k \in {j \in DrainIds : drains[j].pc = "sending"}}

\* time passes: every message gets one tick older (ages saturate past the
\* timeout, where no comparison of the code tells them apart)
Tick ==
    /\ \E id \in LiveMsgs : messages[id].age <= messageTimeout
    /\ messages' = [id \in MsgIds |->
            IF id \in LiveMsgs /\ messages[id].age <= messageTimeout
            THEN [messages[id] EXCEPT !.age = @ + 1] ELSE messages[id]]
    /\ UNCHANGED <<queues, arrays, nextMsg, drains>>
    /\ lastEnq' = NoEnq

(* ====================================================================== *)
(* The server: session registry, clients, handlers                         *)
(* ====================================================================== *)
\* what the SessionState constructor sets
\* (written is not a field of the class: it records that an
\* updateInstanceStatus(instanceId, 1, ..) has been issued for the session
\* since startSession set it up)
NewSessionState == [client |-> 0, status |-> "DISCONNECTED",
                    isReconnecting |-> FALSE, intervals |-> FALSE,
                    written |-> FALSE]

\* a handler invocation that is suspended at an await or waits for its timer
Task(kind, pc, c, reason, by) ==
    [kind |-> kind, pc |-> pc, c |-> c, reason |-> reason, by |-> by]

NoResp == [code |-> 0, queued |-> FALSE, position |-> 0, messageId |-> 0,
           connected |-> FALSE]

\* sessionManager.has(instanceId), sessionManager.get(instanceId)
has == sessions # <<>>
get == sessions[1]

\* sessionManager.delete(instanceId), sessions.delete(instanceId)
Deleted == <<>>

Running == BagToSet(tasks)
CanSpawn == BagCardinality(tasks) < MaxTasks
Spawn(r) == tasks (+) SetToBag({r})
Become(t, r) == (tasks (-) SetToBag({t})) (+) SetToBag({r})
Finish(t) == tasks (-) SetToBag({t})

FreeClients == {c \in CliIds : clients[c] = "free"}
NewClient == CHOOSE c \in FreeClients : \A u \in FreeClients : c <= u

\* a step that leaves the MessageQueue alone
QueueSame ==
    /\ UNCHANGED <<queues, arrays, messages, nextMsg, drains>>
    /\ lastEnq' = NoEnq

\* a step that answers no request and leaves the row and the startup flag alone
Same ==
    /\ booted' = booted
    /\ enabled' = enabled
    /\ noRestart' = noRestart
    /\ resp' = NoResp

\* a Client somebody can still reach: the registered session, a suspended
\* handler, a running drain, or the adapter itself while it emits events
ClientInUse(c, reg, cl, tk, dr) ==
    \/ reg # <<>> /\ reg[1].client = c
    \/ \E t \in BagToSet(tk) : t.c = c
    \/ \E k \in DrainIds : dr[k].pc # "idle" /\ dr[k].c = c
    \/ cl[c] = "live"

\* the new registry, clients and tasks; Client objects nobody can reach are
\* collected
CommitServer(reg, cl, tk, dr) ==
    /\ sessions' = reg
    /\ clients' = [c \in CliIds |->
                     IF ClientInUse(c, reg, cl, tk, dr) THEN cl[c] ELSE "free"]
    /\ tasks' = tk

\* client.destroy() (with or without removeAllListeners before it: a
\* destroyed client emits nothing)
Destroyed(cl, c) == [cl EXCEPT ![c] = "dead"]

(* ---------------------------------------------------------------------- *)
(* lib/config.js: shouldReconnect                                          *)
(* ---------------------------------------------------------------------- *)
\* (variant) a classification that gives up only after a logout
shouldReconnectLogoutOnly(reason) == reason # "LOGOUT"

shouldReconnect(reason) == reason \notin NO_RECONNECT_REASONS

(* ---------------------------------------------------------------------- *)
(* startSession                                                            *)
(* ---------------------------------------------------------------------- *)
\* "Sessão já ativa, ignorando"
AlreadyActive ==
    /\ has
    /\ get.client # 0
    /\ get.status # "DISCONNECTED"

\* startSession called by `by`, suspended at
\* `await updateInstanceStatus(INITIALIZING)`
StartTask(by) == Task("start", "persist", 0, "", by)

\* (variant) callers that never start a session
CallStartSessionNever(by) == CommitServer(sessions, clients, tasks, drains)

\* a caller runs startSession and does nothing after it but wait for it
CallStartSession(by) ==
    IF AlreadyActive
    THEN CommitServer(sessions, clients, tasks, drains)
    ELSE /\ CanSpawn
         /\ CommitServer(sessions, clients, Spawn(StartTask(by)), drains)

\* the status write is done: new Client, getOrCreate, the fields, the
\* handlers; suspended at `await Promise.race([client.initialize(), timeout])`
StartPersisted(t) ==
    /\ t.kind = "start" /\ t.pc = "persist"
    /\ FreeClients # {}
    /\ LET c == NewClient
           old == IF has THEN get ELSE NewSessionState
       IN  CommitServer(<<[old EXCEPT !.client = c, !.status = "INITIALIZING",
                                      !.isReconnecting = FALSE,
                                      !.written = FALSE]>>,
                        [clients EXCEPT ![c] = "live"],
                        Become(t, [t EXCEPT !.pc = "init", !.c = c]), drains)
    /\ Same
    /\ QueueSame

\* client.initialize() resolved; startSession returns sessions.get(instanceId)
InitDone(t) ==
    /\ t.kind = "start" /\ t.pc = "init"
    /\ clients[t.c] # "dead"
    /\ CommitServer(sessions, clients, Finish(t), drains)
    /\ Same
    /\ QueueSame

\* client.initialize() rejected or timed out: INIT_ERROR, `await client.destroy()`
InitFailed(t) ==
    /\ t.kind = "start" /\ t.pc = "init"
    /\ CommitServer(IF has THEN <<[get EXCEPT !.status = "INIT_ERROR"]>>
                    ELSE sessions,
                    Destroyed(clients, t.c),
                    Become(t, [t EXCEPT !.pc = "initfail", !.c = 0]), drains)
    /\ Same
    /\ QueueSame

\* the destroy is over: sessions.delete(instanceId), startSession returns undefined
InitFailDone(t) ==
    /\ t.kind = "start" /\ t.pc = "initfail"
    /\ CommitServer(Deleted, clients, Finish(t), drains)
    /\ Same
    /\ QueueSame

(* ---------------------------------------------------------------------- *)
(* forceReconnect                                                          *)
(* ---------------------------------------------------------------------- *)
\* SessionState.prepareForReconnect
prepareForReconnect(s) == [s EXCEPT !.isReconnecting = TRUE, !.intervals = FALSE]

\* forceReconnect(instanceId, reason) up to its first await: the task it
\* leaves, the registry and the clients
ForceReconnect ==
    IF ~has
    THEN [task |-> Task("fr", "persist", 0, "", ""),
          reg |-> sessions, cl |-> clients]
    ELSE IF get.client # 0
         THEN [task |-> Task("fr", "destroy", 0, "", ""),
               reg |-> <<prepareForReconnect(get)>>,
               cl |-> Destroyed(clients, get.client)]
         ELSE [task |-> Task("fr", "persist", 0, "", ""),
               reg |-> Deleted, cl |-> clients]

\* a caller runs forceReconnect and does nothing else to the state
CallForceReconnect ==
    /\ CanSpawn
    /\ LET r == ForceReconnect
       IN  CommitServer(r.reg, r.cl, Spawn(r.task), drains)

\* destroy resolved or DESTROY_TIMEOUT passed: sessionManager.delete, then
\* `await updateInstanceStatus(RECONNECTING, reason)`
FRDestroyed(t) ==
    /\ t.kind = "fr" /\ t.pc = "destroy"
    /\ CommitServer(Deleted, clients, Become(t, [t EXCEPT !.pc = "persist"]),
                    drains)
    /\ Same
    /\ QueueSame

\* the status write is done: the delay is computed and the restart timer set
FRPersisted(t) ==
    /\ t.kind = "fr" /\ t.pc = "persist"
    /\ CommitServer(sessions, clients, Become(t, [t EXCEPT !.pc = "timer"]),
                    drains)
    /\ Same
    /\ QueueSame

\* the restart timer fires: startSession unless a session is registered
FRTimer(t) ==
    /\ t.kind = "fr" /\ t.pc = "timer"
    /\ CommitServer(sessions, clients,
                    IF has THEN Finish(t) ELSE Become(t, StartTask("fr")),
                    drains)
    /\ Same
    /\ QueueSame

(* ---------------------------------------------------------------------- *)
(* handleConnectionLoss (called by the keep-alive probes of a session)     *)
(* ---------------------------------------------------------------------- *)
\* a heartbeat, websocket check or watchdog of the registered session finds
\* the connection lost and calls handleConnectionLoss, which runs up to the
\* await of client.destroy()
ProbeFailure ==
    /\ has
    /\ get.intervals
    /\ get.client # 0
    /\ get.status = "CONNECTED"
    /\ ~get.isReconnecting
    /\ CanSpawn
    /\ CommitServer(<<[get EXCEPT !.isReconnecting = TRUE,
                                  !.intervals = FALSE]>>,
                    Destroyed(clients, get.client),
                    Spawn(Task("hcl", "destroy", 0, "", "")), drains)
    /\ Same
    /\ QueueSame

\* the destroy is over: sessions.delete, then `await updateInstanceStatus(instId, 0)`
HCLDestroyed(t) ==
    /\ t.kind = "hcl" /\ t.pc = "destroy"
    /\ CommitServer(Deleted, clients, Become(t, [t EXCEPT !.pc = "persist"]),
                    drains)
    /\ Same
    /\ QueueSame

\* the status write is done: the delay is computed and the restart timer set
HCLPersisted(t) ==
    /\ t.kind = "hcl" /\ t.pc = "persist"
    /\ CommitServer(sessions, clients, Become(t, [t EXCEPT !.pc = "timer"]),
                    drains)
    /\ Same
    /\ QueueSame

\* the restart timer fires: startSession unless a session is registered
HCLTimer(t) ==
    /\ t.kind = "hcl" /\ t.pc = "timer"
    /\ CommitServer(sessions, clients,
                    IF has THEN Finish(t) ELSE Become(t, StartTask("hcl")),
                    drains)
    /\ Same
    /\ QueueSame

(* ---------------------------------------------------------------------- *)
(* client events                                                           *)
(* ---------------------------------------------------------------------- *)
\* a client whose handlers can still be called
Emits(c) == clients[c] = "live"

\* a handler that only writes fields of the registered session
SetSession(s) ==
    /\ CommitServer(<<s>>, clients, tasks, drains)
    /\ Same
    /\ QueueSame

\* startKeepAlive: the registered session's intervals are cleared and armed
startKeepAlive(s) == [s EXCEPT !.intervals = TRUE]

\* 'loading_screen'
LoadingScreen(c) ==
    /\ Emits(c)
    /\ has
    /\ SetSession([get EXCEPT !.status = "LOADING"])

needsForceConnect(status) ==
    status \in {"LOADING", "SYNC_TIMEOUT", "AUTHENTICATED", "SYNC_FAILED"}

\* 'change_state' with state CONNECTED
ChangeStateConnected(c) ==
    /\ Emits(c)
    /\ has
    /\ needsForceConnect(get.status)
    /\ SetSession(startKeepAlive([get EXCEPT !.status = "CONNECTED",
                                             !.written = TRUE]))

\* 'change_state' with state UNPAIRED or UNPAIRED_IDLE
ChangeStateUnpaired(c) ==
    /\ Emits(c)
    /\ has
    /\ SetSession([get EXCEPT !.status = "QR_CODE"])

\* 'qr'
Qr(c) ==
    /\ Emits(c)
    /\ has
    /\ SetSession([get EXCEPT !.status = "QR_CODE"])

\* 'authenticated'
Authenticated(c) ==
    /\ Emits(c)
    /\ has
    /\ SetSession([get EXCEPT !.status = "AUTHENTICATED"])

\* checkAuthenticatedState finds getState() = CONNECTED: the status is set,
\* then the poll is suspended at `await currentSession.client.pupPage.evaluate`
PromotionCheck ==
    /\ has
    /\ get.status = "AUTHENTICATED"
    /\ get.client # 0
    /\ clients[get.client] # "dead"
    /\ CanSpawn
    /\ CommitServer(<<[get EXCEPT !.status = "CONNECTED"]>>, clients,
                    Spawn(Task("promo", "store", 0, "", "")), drains)
    /\ Same
    /\ QueueSame

\* the evaluate is over (its error is swallowed): the poll is suspended at
\* `await updateInstanceStatus(instanceId, 1, ..)` on the session it holds
PromotionStore(t) ==
    /\ t.kind = "promo" /\ t.pc = "store"
    /\ CommitServer(IF has THEN <<[get EXCEPT !.written = TRUE]>> ELSE sessions,
                    clients, Become(t, [t EXCEPT !.pc = "persist"]), drains)
    /\ Same
    /\ QueueSame

\* the status write is done: startKeepAlive() on the session registered now
PromotionPersisted(t) ==
    /\ t.kind = "promo" /\ t.pc = "persist"
    /\ CommitServer(IF has THEN <<startKeepAlive(get)>> ELSE sessions,
                    clients, Finish(t), drains)
    /\ Same
    /\ QueueSame

\* 'ready' up to `await updateInstanceStatus(.., CONNECTED)`
Ready(c) ==
    /\ Emits(c)
    /\ CanSpawn
    /\ CommitServer(IF has
                    THEN <<startKeepAlive([get EXCEPT !.status = "CONNECTED",
                                                      !.written = TRUE])>>
                    ELSE sessions,
                    clients, Spawn(Task("ready", "persist", c, "", "")), drains)
    /\ Same
    /\ QueueSame

\* messageQueue.getQueueSize
getQueueSize == IF queues = 0 THEN 0 ELSE Len(arrays[queues])

\* the status write is done: a pending queue arms the 2 s drain timer
ReadyPersisted(t) ==
    /\ t.kind = "ready" /\ t.pc = "persist"
    /\ CommitServer(sessions, clients,
                    IF getQueueSize > 0
                    THEN Become(t, [t EXCEPT !.pc = "timer"])
                    ELSE Finish(t), drains)
    /\ Same
    /\ QueueSame

\* the drain timer fires: messageQueue.processQueue with a send function
\* bound to the client of the 'ready' event
ReadyTimer(t) ==
    /\ t.kind = "ready" /\ t.pc = "timer"
    /\ IF queues # 0 /\ arrays[queues] # <<>>
       THEN /\ FreeDrains # {}
            /\ DoProcessQueue(t.c)
            /\ nextMsg' = nextMsg /\ lastEnq' = NoEnq
       ELSE QueueSame
    /\ CommitServer(sessions, clients, Finish(t), drains')
    /\ Same

\* 'disconnected' up to `await updateInstanceStatus(.., DISCONNECTED, reason)`
\* (the task remembers whether the row was disabled when the event came)
Disconnected(c, reason) ==
    /\ Emits(c)
    /\ CanSpawn
    /\ CommitServer(sessions, [clients EXCEPT ![c] = "silent"],
                    Spawn(Task("disc", "persist", c, reason,
                               IF enabled THEN "" ELSE "disabled")), drains)
    /\ Same
    /\ QueueSame

\* the handler after sessionManager.delete: the reason decides between
\* disabling the instance and arming the restart timer
Classified(reason, by) ==
    IF ~shouldReconnect(reason)
    THEN Task("disc", "disable", 0, reason, by)
    ELSE Task("disc", "timer", 0, reason, by)

\* the status write is done: clean up the registered session and destroy the
\* client of the event; without a registered session go on at once
DiscPersisted(t) ==
    /\ t.kind = "disc" /\ t.pc = "persist"
    /\ IF has
       THEN CommitServer(<<[get EXCEPT !.intervals = FALSE,
                                       !.status = "DISCONNECTED",
                                       !.client = 0]>>,
                         Destroyed(clients, t.c),
                         Become(t, [t EXCEPT !.pc = "destroy", !.c = 0]),
                         drains)
       ELSE CommitServer(Deleted, clients, Become(t, Classified(t.reason, t.by)),
                         drains)
    /\ Same
    /\ QueueSame

\* the destroy is over: sessionManager.delete, then the reason decides
DiscDestroyed(t) ==
    /\ t.kind = "disc" /\ t.pc = "destroy"
    /\ CommitServer(Deleted, clients, Become(t, Classified(t.reason, t.by)), drains)
    /\ Same
    /\ QueueSame

\* `UPDATE instances SET enabled = 0` is done; the handler returns
DiscDisabled(t) ==
    /\ t.kind = "disc" /\ t.pc = "disable"
    /\ enabled' = FALSE
    /\ noRestart' = "NO_RECONNECT"
    /\ CommitServer(sessions, clients, Finish(t), drains)
    /\ booted' = booted /\ resp' = NoResp
    /\ QueueSame

\* the restart timer fired and its SELECT of the instance row returned
DiscTimer(t) ==
    /\ t.kind = "disc" /\ t.pc = "timer"
    /\ CommitServer(sessions, clients,
                    IF enabled /\ ~has
                    THEN Become(t, [t EXCEPT !.pc = "persist2"])
                    ELSE Finish(t), drains)
    /\ noRestart' = IF ~enabled /\ t.by = "disabled" /\ noRestart = ""
                    THEN "DISABLED" ELSE noRestart
    /\ booted' = booted /\ enabled' = enabled /\ resp' = NoResp
    /\ QueueSame

\* `await updateInstanceStatus(.., RECONNECTING)` is done: startSession
DiscRestart(t) ==
    /\ t.kind = "disc" /\ t.pc = "persist2"
    /\ CommitServer(sessions, clients,
                    IF AlreadyActive THEN Finish(t)
                    ELSE Become(t, StartTask("disc")), drains)
    /\ Same
    /\ QueueSame

(* ---------------------------------------------------------------------- *)
(* POST /api/send-text                                                     *)
(* ---------------------------------------------------------------------- *)
\* the instance has a session with status CONNECTED and a client
Connected ==
    /\ has
    /\ get.status = "CONNECTED"
    /\ get.client # 0

\* (variant) a branch that looks at the session and its client only
MustQueueAnyStatus == ~has \/ get.client = 0

\* `!session || session.status !== CONNECTED || !session.client`
MustQueue ==
    \/ ~has
    \/ get.status # "CONNECTED"
    \/ get.client = 0

\* `!session || session.status !== RECONNECTING`
NotYetReconnecting == ~has \/ get.status # "RECONNECTING"

\* a well-formed request arrives; not connected: enqueue, forceReconnect and
\* 202; connected: suspended at `await session.client.sendMessage(..)`
SendText ==
    /\ booted
    /\ CanSpawn
    /\ IF MustQueue
       THEN /\ CanEnqueue
            /\ nextMsg < MaxQueued
            /\ DoEnqueue
            /\ IF NotYetReconnecting
               THEN LET r == ForceReconnect
                    IN  CommitServer(r.reg, r.cl, Spawn(r.task), drains')
               ELSE CommitServer(sessions, clients, tasks, drains')
            /\ resp' = [code |-> 202, queued |-> TRUE,
                        position |-> lastEnq'.position,
                        messageId |-> lastEnq'.messageId,
                        connected |-> Connected]
       ELSE /\ CommitServer(sessions, clients,
                    Spawn(Task("send", "await", get.client, "",
                               IF Connected THEN "connected" ELSE "other")),
                    drains)
            /\ resp' = NoResp
            /\ QueueSame
    /\ UNCHANGED <<booted, enabled, noRestart>>

\* sendMessage resolved: 200 with the id of the sent message
SendDone(t) ==
    /\ t.kind = "send" /\ t.pc = "await"
    /\ t.c # 0
    /\ clients[t.c] # "dead"
    /\ CommitServer(sessions, clients, Finish(t), drains)
    /\ resp' = [NoResp EXCEPT !.code = 200, !.connected = (t.by = "connected")]
    /\ UNCHANGED <<booted, enabled, noRestart>>
    /\ QueueSame

\* sendMessage threw an error that names a lost connection: enqueue,
\* forceReconnect and 202 without a position
SendLost(t) ==
    /\ t.kind = "send" /\ t.pc = "await"
    /\ CanEnqueue
    /\ nextMsg < MaxQueued
    /\ DoEnqueue
    /\ LET r == ForceReconnect
       IN  CommitServer(r.reg, r.cl, Become(t, r.task), drains')
    /\ resp' = [code |-> 202, queued |-> TRUE, position |-> 0,
                messageId |-> lastEnq'.messageId,
                connected |-> (t.by = "connected")]
    /\ UNCHANGED <<booted, enabled, noRestart>>

\* sendMessage threw any other error: 500
SendError(t) ==
    /\ t.kind = "send" /\ t.pc = "await"
    /\ CommitServer(sessions, clients, Finish(t), drains)
    /\ resp' = [NoResp EXCEPT !.code = 500, !.connected = (t.by = "connected")]
    /\ UNCHANGED <<booted, enabled, noRestart>>
    /\ QueueSame

(* ---------------------------------------------------------------------- *)
(* POST /api/send-media                                                    *)
(* ---------------------------------------------------------------------- *)
\* a 503 of send-media
NotActive == [NoResp EXCEPT !.code = 503]

\* a request with instance, to and a media arrives: 503 without session, 503
\* when the session is not CONNECTED or has no client; otherwise suspended
\* at `await session.client.sendMessage(chatId, media, ..)`
SendMedia ==
    /\ IF ~has
       THEN /\ CommitServer(sessions, clients, tasks, drains)
            /\ resp' = NotActive
       ELSE IF get.status # "CONNECTED" \/ get.client = 0
            THEN /\ CommitServer(sessions, clients, tasks, drains)
                 /\ resp' = NotActive
            ELSE /\ CanSpawn
                 /\ CommitServer(sessions, clients,
                         Spawn(Task("media", "await", get.client, "",
                                    "connected")), drains)
                 /\ resp' = NoResp
    /\ UNCHANGED <<booted, enabled, noRestart>>
    /\ QueueSame

\* sendMessage resolved: 200 with the id of the sent message
MediaDone(t) ==
    /\ t.kind = "media" /\ t.pc = "await"
    /\ clients[t.c] # "dead"
    /\ CommitServer(sessions, clients, Finish(t), drains)
    /\ resp' = [NoResp EXCEPT !.code = 200, !.connected = TRUE]
    /\ UNCHANGED <<booted, enabled, noRestart>>
    /\ QueueSame

\* sendMessage (or the loading of the media) threw: 500
MediaError(t) ==
    /\ t.kind = "media" /\ t.pc = "await"
    /\ CommitServer(sessions, clients, Finish(t), drains)
    /\ resp' = [NoResp EXCEPT !.code = 500, !.connected = TRUE]
    /\ UNCHANGED <<booted, enabled, noRestart>>
    /\ QueueSame

(* ---------------------------------------------------------------------- *)
(* enable, disable, start                                                  *)
(* ---------------------------------------------------------------------- *)
\* POST /api/instance/:id/enable, from the end of its UPDATE
EnableApi ==
    /\ booted
    /\ enabled' = TRUE
    /\ noRestart' = ""
    /\ IF ~has THEN CallStartSession("api")
       ELSE CommitServer(sessions, clients, tasks, drains)
    /\ booted' = booted /\ resp' = NoResp
    /\ QueueSame

\* POST /api/instance/:id/disable, from the end of its UPDATE
DisableApi ==
    /\ booted
    /\ enabled' = FALSE
    /\ UNCHANGED <<booted, noRestart, sessions, clients, tasks>>
    /\ resp' = NoResp
    /\ QueueSame

\* POST /api/session/start
StartApi ==
    /\ booted
    /\ ~AlreadyActive
    /\ noRestart' = ""
    /\ CallStartSession("api")
    /\ UNCHANGED <<booted, enabled>>
    /\ resp' = NoResp
    /\ QueueSame

(* ---------------------------------------------------------------------- *)
(* the monitors armed by startHealthCheck                                  *)
(* ---------------------------------------------------------------------- *)
\* healthCheck finds the registered session without a client:
\* clearSessionIntervals, sessions.delete, forceReconnect
HealthCheckNoClient ==
    /\ booted
    /\ has
    /\ get.client = 0
    /\ CanSpawn
    /\ CommitServer(Deleted, clients, Spawn(Task("fr", "persist", 0, "", "")),
                    drains)
    /\ Same
    /\ QueueSame

\* healthCheck finds the browser gone, the page closed, loading stuck, the
\* ping too old or the websocket check failing
HealthCheckUnhealthy ==
    /\ booted
    /\ has
    /\ get.client # 0
    /\ CallForceReconnect
    /\ Same
    /\ QueueSame

\* checkMissingInstances, from the end of its SELECT
CheckMissingInstances ==
    /\ booted
    /\ enabled
    /\ ~has
    /\ CallStartSession("sweep")
    /\ Same
    /\ QueueSame

\* deepHealthCheck finds a CONNECTED session in a bad state or too slow
DeepHealthCheck ==
    /\ booted
    /\ Connected
    /\ CallForceReconnect
    /\ Same
    /\ QueueSame

\* instanceRecoveryCheck, the sweep over the sessions in memory: a zombie,
\* a session stuck in loading, one not connected for too long, or one
\* whose status is DISCONNECTED
RecoveryCheckMemory ==
    /\ booted
    /\ has
    /\ get.status # "QR_REQUIRED"
    /\ CallForceReconnect
    /\ Same
    /\ QueueSame

\* instanceRecoveryCheck, the sweep over the enabled rows, from the end of
\* its SELECT
RecoveryCheckRows ==
    /\ booted
    /\ enabled
    /\ IF ~has
       THEN CallStartSession("sweep")
       ELSE /\ get.status = "DISCONNECTED" \/ get.client = 0
            /\ CallForceReconnect
    /\ Same
    /\ QueueSame

\* memoryMonitor.check with the heap over MAX_TOTAL_HEAP:
\* restartDegradedInstances
MemoryCheck ==
    /\ booted
    /\ has
    /\ get.status = "CONNECTED"
    /\ CallForceReconnect
    /\ Same
    /\ QueueSame

(* ---------------------------------------------------------------------- *)
(* startup                                                                 *)
(* ---------------------------------------------------------------------- *)
\* initDB: an enabled row is rehydrated with startSession (not awaited)
InitDB ==
    /\ ~booted
    /\ booted' = TRUE
    /\ IF enabled THEN CallStartSession("boot")
       ELSE CommitServer(sessions, clients, tasks, drains)
    /\ UNCHANGED <<enabled, noRestart>>
    /\ resp' = NoResp
    /\ QueueSame

(* ---------------------------------------------------------------------- *)
(* lib/config.js: the delay of a restart timer                             *)
(* ---------------------------------------------------------------------- *)
RECONNECT_BASE_DELAY == 5000
RECONNECT_MAX_DELAY == 300000
RECONNECT_IMMEDIATE_DELAY == 3000
RECONNECT_JITTER_MAX == 3000
IMMEDIATE_RECONNECT_REASONS ==
    {"CONFLICT", "UNPAIRED", "NAVIGATION", "TIMEOUT", "NETWORK_ERROR"}

\* the reasons a failure episode is taken to start with
EpisodeReasons == {"NAVIGATION", "BROWSER_DEAD"}

\* values of Math.random() * RECONNECT_JITTER_MAX, in whole milliseconds
Jitters == {0, RECONNECT_JITTER_MAX \div 2, RECONNECT_JITTER_MAX - 1}

isImmediateReconnect(reason) == reason \in IMMEDIATE_RECONNECT_REASONS

RECURSIVE Pow(_, _)
Pow(b, n) == IF n = 0 THEN 1 ELSE b * Pow(b, n - 1)

\* Math.floor(RECONNECT_BASE_DELAY * Math.pow(1.5, attempt)): 5000 is 625 * 8
\* and 1.5 ^ n is 3 ^ n / 2 ^ n
exponentialDelay(attempt) ==
    IF attempt <= 3
    THEN (RECONNECT_BASE_DELAY \div 8) * Pow(3, attempt) * Pow(2, 3 - attempt)
    ELSE ((RECONNECT_BASE_DELAY \div 8) * Pow(3, attempt)) \div Pow(2, attempt - 3)

\* Math.min(exponentialDelay, RECONNECT_MAX_DELAY), rounded down
cappedDelay(attempt) ==
    IF exponentialDelay(attempt) < RECONNECT_MAX_DELAY
    THEN exponentialDelay(attempt) ELSE RECONNECT_MAX_DELAY

\* calculateReconnectDelay(attempt, immediate) when Math.random() gives jitter
calculateReconnectDelay(attempt, immediate, jitter) ==
    IF immediate
    THEN RECONNECT_IMMEDIATE_DELAY + attempt * 1500
    ELSE cappedDelay(attempt) + jitter

NoBackoff == [reason |-> "", attempt |-> 0, delay |-> 0, before |-> 0]

\* a failure episode begins: the first reconnect will use attempt count 0
EpisodeBegins(reason) ==
    /\ backoff' = [NoBackoff EXCEPT !.reason = reason]

\* a reconnect path computes the delay of its restart timer; the session it
\* starts carries the attempt count plus one
DelayComputed(jitter) ==
    /\ backoff.reason # ""
    /\ backoff.attempt < MaxAttempt
    /\ backoff' = [backoff EXCEPT
            !.attempt = @ + 1,
            !.before = backoff.delay,
            !.delay = calculateReconnectDelay(backoff.attempt,
                            isImmediateReconnect(backoff.reason), jitter)]

(* ---------------------------------------------------------------------- *)
(* reconnectAttempts along the reconnect paths                             *)
(* ---------------------------------------------------------------------- *)
\* RESILIENCE_CONFIG.MAX_RECONNECT_ATTEMPTS (20), scaled to the model
MAX_RECONNECT_ATTEMPTS == 3

\* sess: "none", "starting" (registered, initialize pending) or "up";
\* attempts: reconnectAttempts of the registered SessionState;
\* path, pc, n: the reconnect under way ("fr", "hcl", "disc"; "sweep" for a
\* startSession of a sweep), where it is, and the count it holds;
\* seen: what the path read from the session; used: the count its delay was
\* computed with
NoRecon == [sess |-> "none", connected |-> FALSE, attempts |-> 0,
            path |-> "", pc |-> "", n |-> 0, seen |-> 0, used |-> 0]

\* SessionState.incrementReconnectAttempts
incrementReconnectAttempts(a) ==
    IF a + 1 >= MAX_RECONNECT_ATTEMPTS THEN 0 ELSE a + 1

\* the count a path reads: session.reconnectAttempts || 0, 0 without session
ReadAttempts == IF recon.sess = "none" THEN 0 ELSE recon.attempts

\* forceReconnect up to its setTimeout: the session is deleted, the delay is
\* computed with the count read
ReconForce ==
    /\ recon.path = ""
    /\ recon' = [recon EXCEPT !.sess = "none", !.connected = FALSE,
                              !.attempts = 0, !.path = "fr", !.pc = "timer",
                              !.n = ReadAttempts, !.seen = ReadAttempts,
                              !.used = ReadAttempts]

\* handleConnectionLoss (called by a probe of a CONNECTED session) up to its
\* setTimeout
ReconLoss ==
    /\ recon.path = ""
    /\ recon.sess # "none"
    /\ recon.connected
    /\ recon.attempts <= MAX_RECONNECT_ATTEMPTS
    /\ recon' = [recon EXCEPT !.sess = "none", !.connected = FALSE,
                              !.attempts = 0, !.path = "hcl", !.pc = "timer",
                              !.n = recon.attempts, !.seen = recon.attempts,
                              !.used = recon.attempts]

\* the 'disconnected' handler (recoverable reason) up to its setTimeout: a
\* count at the maximum is reset before the delay is computed
ReconDisconnected ==
    /\ recon.path = ""
    /\ recon.sess # "none"
    /\ LET a == IF ReadAttempts >= MAX_RECONNECT_ATTEMPTS THEN 0
                ELSE ReadAttempts
       IN  recon' = [recon EXCEPT !.sess = "none", !.connected = FALSE,
                                 !.attempts = 0, !.path = "disc",
                                 !.pc = "timer", !.n = a,
                                 !.seen = ReadAttempts, !.used = a]

\* the restart timer fires: without a registered session startSession runs
\* and registers a new SessionState
ReconTimer ==
    /\ recon.pc = "timer"
    /\ IF recon.sess = "none"
       THEN recon' = [recon EXCEPT !.sess = "starting", !.attempts = 0,
                                  !.pc = "start"]
       ELSE recon' = [recon EXCEPT !.path = "", !.pc = "", !.n = 0]

\* checkMissingInstances or instanceRecoveryCheck finds no session
ReconSweep ==
    /\ recon.sess = "none"
    /\ recon.pc # "start"
    /\ recon' = [recon EXCEPT !.sess = "starting", !.attempts = 0,
                              !.path = IF recon.path = "" THEN "sweep" ELSE @,
                              !.pc = IF recon.path = "" THEN "start" ELSE @]

\* startSession returns the session: the path stores its count in it
ReconStarted ==
    /\ recon.pc = "start"
    /\ recon.sess = "starting"
    /\ recon' = [recon EXCEPT
            !.sess = "up", !.path = "", !.pc = "", !.n = 0,
            !.attempts = CASE recon.path = "fr" ->
                                  incrementReconnectAttempts(recon.attempts)
                           [] recon.path \in {"hcl", "disc"} -> recon.n + 1
                           [] OTHER -> recon.attempts]

\* a startSession of a sweep that ran beside a pending timer returns
ReconInitialized ==
    /\ recon.sess = "starting"
    /\ recon.pc # "start"
    /\ recon' = [recon EXCEPT !.sess = "up"]

\* initialize fails: the session is deleted, startSession returns undefined
ReconInitError ==
    /\ recon.sess = "starting"
    /\ recon' = [recon EXCEPT
            !.sess = "none", !.connected = FALSE, !.attempts = 0,
            !.path = IF recon.pc = "start" THEN "" ELSE @,
            !.pc = IF recon.pc = "start" THEN "" ELSE @,
            !.n = IF recon.pc = "start" THEN 0 ELSE @]

\* 'ready' (or 'change_state' CONNECTED): status CONNECTED, reconnectAttempts = 0
ReconReady ==
    /\ recon.sess # "none"
    /\ ~recon.connected
    /\ recon' = [recon EXCEPT !.connected = TRUE, !.attempts = 0]

\* checkAuthenticatedState reads CONNECTED from getState(): status
\* CONNECTED; reconnectAttempts is not written
ReconPromoted ==
    /\ recon.sess # "none"
    /\ ~recon.connected
    /\ recon' = [recon EXCEPT !.connected = TRUE]

\* the timer armed after a restart finds the session CONNECTED after
\* RECONNECT_RESET_AFTER: resetCounters
ReconResetAfter ==
    /\ recon.sess = "up"
    /\ recon.connected
    /\ recon.attempts # 0
    /\ recon' = [recon EXCEPT !.attempts = 0]

(* ---------------------------------------------------------------------- *)
(* A session that stays in loading, and the sweeps that look for it        *)
(* ---------------------------------------------------------------------- *)
\* RESILIENCE_CONFIG.LOADING_TIMEOUT (300 s) and the 180 s of
\* instanceRecoveryCheck, scaled to ticks of the model's clock
LOADING_TIMEOUT == 2
RecoveryStuckAfter == 1
MaxAge == 3

\* the statuses startSession and the adapter events give a session
LoadingStatuses == {"LOADING_50%", "LOADING_100%"}

\* sess: a SessionState is registered (its client is set by startSession);
\* age: now - loadingStartTime; browser: pupBrowser connected and pupPage
\* open; pending: the reason of the reconnect scheduled, "" when none;
\* stuck: isStuckInLoading held when that reconnect was scheduled
NoLoad == [sess |-> FALSE, status |-> "DISCONNECTED", age |-> 0,
           browser |-> FALSE, pending |-> "", stuck |-> FALSE]

\* SessionState.isStuckInLoading
isStuckInLoading ==
    /\ load.sess
    /\ load.status \in LoadingStatuses \cup {"INITIALIZING"}
    /\ load.age > LOADING_TIMEOUT

\* startSession as far as the loading state goes
LoadStart(browser) ==
    [load EXCEPT !.sess = TRUE, !.status = "INITIALIZING", !.age = 0,
                 !.browser = browser]

\* forceReconnect without its setTimeout
LoadForceReconnectNoTimer(reason) ==
    [load EXCEPT !.sess = FALSE, !.status = "DISCONNECTED", !.age = 0,
                 !.browser = FALSE, !.stuck = isStuckInLoading]

\* forceReconnect: the session is destroyed and deleted, a restart timer armed
LoadForceReconnect(reason) ==
    [load EXCEPT !.sess = FALSE, !.status = "DISCONNECTED", !.age = 0,
                 !.browser = FALSE, !.pending = reason,
                 !.stuck = isStuckInLoading]

\* a sweep or a request starts the session
LoadStartSession ==
    /\ ~load.sess
    /\ \E browser \in BOOLEAN : load' = [LoadStart(browser) EXCEPT !.stuck = FALSE]

\* the restart timer of forceReconnect fires
LoadTimer ==
    /\ load.pending # ""
    /\ IF load.sess
       THEN load' = [load EXCEPT !.pending = "", !.stuck = FALSE]
       ELSE \E browser \in BOOLEAN :
               load' = [LoadStart(browser) EXCEPT !.pending = "",
                                                  !.stuck = FALSE]

\* the adapter goes on ('loading_screen', 'qr', 'ready'); an adapter that has
\* left its session stuck emits nothing further
LoadAdapter ==
    /\ load.sess
    /\ load.browser
    /\ ~isStuckInLoading
    /\ \E st \in LoadingStatuses \cup {"QR_CODE", "CONNECTED"} :
          /\ load.status \in LoadingStatuses \cup {"INITIALIZING", "QR_CODE"}
          /\ load' = [load EXCEPT !.status = st]

\* 'auth_failure': the status is set (and the message kept in
\* authFailureReason); loadingStartTime is left as startSession set it
LoadAuthFailure ==
    /\ load.sess
    /\ load.browser
    /\ ~isStuckInLoading
    /\ load.status \in LoadingStatuses \cup {"INITIALIZING", "QR_CODE"}
    /\ load' = [load EXCEPT !.status = "AUTH_FAILURE"]

\* the 60 s timer of 'loading_screen' at 100 %
LoadSyncTimeout ==
    /\ load.sess
    /\ load.status = "LOADING_100%"
    /\ load' = [load EXCEPT !.status = "SYNC_TIMEOUT"]

\* the browser crashes or its page closes
LoadBrowserLost ==
    /\ load.sess
    /\ load.browser
    /\ load' = [load EXCEPT !.browser = FALSE]

\* time passes
LoadTick ==
    /\ load.sess
    /\ load.age < MaxAge
    /\ load' = [load EXCEPT !.age = load.age + 1]

\* healthCheck for the session: browser, page, then the loading time (the
\* checks of a CONNECTED session find it in order)
LoadHealthCheck ==
    /\ load.sess
    /\ IF ~load.browser
       THEN \E reason \in {"BROWSER_DESCONECTADO", "PAGINA_FECHADA"} :
               load' = LoadForceReconnect(reason)
       ELSE IF /\ load.status \in LoadingStatuses \cup {"INITIALIZING"}
               /\ load.age > LOADING_TIMEOUT
            THEN load' = LoadForceReconnect("LOADING_TRAVADO")
            ELSE load' = load

\* instanceRecoveryCheck for the session: detectStuckSessions, then the
\* sessions in memory (no zombie: the last ping of a CONNECTED session is
\* recent)
LoadRecoveryCheck ==
    /\ load.sess
    /\ IF isStuckInLoading
       THEN load' = LoadForceReconnect("STUCK_IN_LOADING")
       ELSE IF /\ load.status \notin {"CONNECTED", "QR_REQUIRED"}
               /\ load.age > RecoveryStuckAfter
            THEN load' = LoadForceReconnect("RECOVERY_TRAVADA")
            ELSE load' = load

(* ---------------------------------------------------------------------- *)
(* Reconnection while the metadata store fails                             *)
(* ---------------------------------------------------------------------- *)
\* pool: initDB has set the pool; up: pool.execute resolves (it rejects
\* otherwise); enabled: the instance's row; sess: "none", "starting" or
\* "up"; timer: the restart timer pending ("disc", "fr", "hcl") or "";
\* owed: the session was lost and no startSession has begun since;
\* logged: the last store call of a handler was rejected and logged
NoDb == [pool |-> FALSE, up |-> TRUE, enabled |-> TRUE, sess |-> "none",
         timer |-> "", owed |-> FALSE, logged |-> FALSE]

\* updateInstanceStatus: nothing without pool, a rejection is caught and
\* logged
UpdateLogged == db.pool /\ ~db.up

\* startSession begins (its status write cannot stop it)
DbBegun(d) ==
    [d EXCEPT !.sess = "starting", !.owed = FALSE, !.logged = UpdateLogged]

\* initDB
DbInitDB ==
    /\ ~db.pool
    /\ db.up
    /\ db' = [db EXCEPT !.pool = TRUE]

\* the store stops answering, or answers again
DbFails ==
    /\ db.up
    /\ db' = [db EXCEPT !.up = FALSE]

DbRecovers ==
    /\ ~db.up
    /\ db' = [db EXCEPT !.up = TRUE]

\* a start request for the instance
DbStartRequest ==
    /\ db.sess = "none"
    /\ db' = DbBegun(db)

\* POST /api/instance/:id/enable
DbEnable ==
    /\ db.pool
    /\ IF ~db.up
       THEN db' = [db EXCEPT !.logged = TRUE]
       ELSE IF db.sess = "none"
            THEN db' = DbBegun([db EXCEPT !.enabled = TRUE])
            ELSE db' = [db EXCEPT !.enabled = TRUE]

\* POST /api/instance/:id/disable
DbDisable ==
    /\ db.pool
    /\ IF ~db.up
       THEN db' = [db EXCEPT !.logged = TRUE]
       ELSE db' = [db EXCEPT !.enabled = FALSE, !.owed = FALSE]

\* initialize resolves
DbInitDone ==
    /\ db.sess = "starting"
    /\ db' = [db EXCEPT !.sess = "up"]

\* 'disconnected' with a recoverable reason, up to its setTimeout
DbDisconnected ==
    /\ db.sess = "up"
    /\ db.timer = ""
    /\ db' = [db EXCEPT !.sess = "none", !.timer = "disc",
                        !.owed = db.enabled, !.logged = UpdateLogged]

\* forceReconnect or handleConnectionLoss, up to its setTimeout
DbReconnect(path) ==
    /\ db.sess # "none"
    /\ db.timer = ""
    /\ db' = [db EXCEPT !.sess = "none", !.timer = path,
                        !.owed = db.enabled, !.logged = UpdateLogged]

\* the restart timer fires
DbTimer ==
    /\ db.timer # ""
    /\ LET d == [db EXCEPT !.timer = ""]
       IN  IF db.timer = "disc" /\ db.pool
           THEN IF ~db.up
                THEN db' = [d EXCEPT !.logged = TRUE]
                ELSE IF db.enabled /\ db.sess = "none"
                     THEN db' = DbBegun(d)
                     ELSE db' = d
           ELSE IF db.sess = "none" THEN db' = DbBegun(d) ELSE db' = d

\* checkMissingInstances, and the rows of instanceRecoveryCheck: both select
\* the enabled rows and start those without a session
DbSweep ==
    /\ db.pool
    /\ IF ~db.up
       THEN db' = [db EXCEPT !.logged = TRUE]
       ELSE IF db.enabled /\ db.sess = "none"
            THEN db' = DbBegun(db)
            ELSE db' = db

(* ---------------------------------------------------------------------- *)
(* ShutdownHandler                                                         *)
(* ---------------------------------------------------------------------- *)
MaxCallbacks == 2
MaxSessions == 2
MaxSignals == 2

\* pool: init was given a pool; ncb: callbacks of onShutdown; nsess: sessions
\* with a client; isShuttingDown; pc: where _handleShutdown is suspended
\* ("callbacks", "destroy", "pool", "exit") or "exited"; done: callbacks
\* awaited so far; pending: destroy promises not settled; ignored: signals
\* that came during the shutdown; intervals: the registered intervals run;
\* flagged: sessions with isShuttingDown set and their intervals cleared;
\* issued: store writes of step 4 issued; stripped, called: sessions whose
\* client had removeAllListeners, destroy called; closed: pool.end() called
NoShut == [pool |-> FALSE, ncb |-> 0, nsess |-> 0, isShuttingDown |-> FALSE,
           pc |-> "", done |-> 0, pending |-> 0, ignored |-> 0,
           intervals |-> FALSE, flagged |-> 0, issued |-> 0, stripped |-> 0,
           called |-> 0, closed |-> FALSE]

\* ShutdownHandler.init(sessionManager, pool) with a pool
ShutInit ==
    /\ ~shut.isShuttingDown
    /\ ~shut.pool
    /\ shut' = [shut EXCEPT !.pool = TRUE]

\* ShutdownHandler.registerInterval, called by startHealthCheck
registerInterval ==
    /\ ~shut.isShuttingDown
    /\ ~shut.intervals
    /\ shut' = [shut EXCEPT !.intervals = TRUE]

\* ShutdownHandler.onShutdown(callback)
onShutdown ==
    /\ ~shut.isShuttingDown
    /\ shut.ncb < MaxCallbacks
    /\ shut' = [shut EXCEPT !.ncb = shut.ncb + 1]

\* a session with a client is registered with the session manager
ShutSession ==
    /\ ~shut.isShuttingDown
    /\ shut.nsess < MaxSessions
    /\ shut' = [shut EXCEPT !.nsess = shut.nsess + 1]

\* step 4 begins: one destroy promise per session with a client, then the
\* await of their race with the global timer
\* (variant) a step 4 that destroys the clients without the store write
ToDestroyUnwritten(s) ==
    [s EXCEPT !.pc = "destroy", !.pending = s.nsess,
              !.stripped = s.nsess, !.called = s.nsess]

\* each promise runs up to its first await: with a pool the store write,
\* without one the destroy (after removeAllListeners)
ToDestroy(s) ==
    [s EXCEPT !.pc = "destroy", !.pending = s.nsess,
              !.issued = IF s.pool THEN s.nsess ELSE 0,
              !.stripped = IF s.pool THEN 0 ELSE s.nsess,
              !.called = IF s.pool THEN 0 ELSE s.nsess]

\* step 5 begins: `await this.pool.end()` with a pool, the finally block and
\* its exit timer without
ToPool(s) == [s EXCEPT !.pc = IF s.pool THEN "pool" ELSE "exit",
                       !.closed = s.pool]

\* _handleShutdown(signal) up to its first await
HandleShutdown ==
    IF shut.isShuttingDown
    THEN /\ shut.ignored < MaxSignals
         /\ shut' = [shut EXCEPT !.ignored = shut.ignored + 1]
    ELSE LET s == [shut EXCEPT !.isShuttingDown = TRUE,
                               !.intervals = FALSE, !.flagged = shut.nsess]
         IN  shut' = IF s.ncb > 0 THEN [s EXCEPT !.pc = "callbacks"]
                     ELSE ToDestroy(s)

\* the callback awaited returns or throws, or its 5 s timer wins the race
CallbackOver ==
    /\ shut.pc = "callbacks"
    /\ LET s == [shut EXCEPT !.done = shut.done + 1]
       IN  shut' = IF s.done = s.ncb THEN ToDestroy(s) ELSE s

CallbackReturns == CallbackOver

CallbackTimeout == CallbackOver

\* the store write of one promise settles (a rejection is swallowed):
\* removeAllListeners, then destroy is called and raced with DESTROY_TIMEOUT
WriteSettled ==
    /\ shut.pc \in {"destroy", "pool", "exit"}
    /\ shut.called < shut.issued
    /\ shut' = [shut EXCEPT !.stripped = shut.stripped + 1,
                            !.called = shut.called + 1]

\* one destroy promise settles (client.destroy() over, or DESTROY_TIMEOUT)
ClientDestroyed ==
    /\ shut.pc = "destroy"
    /\ shut.pending > 0
    /\ shut.nsess - shut.pending < shut.called
    /\ shut' = [shut EXCEPT !.pending = shut.pending - 1]

\* Promise.all(destroyPromises) wins the race
AllDestroyed ==
    /\ shut.pc = "destroy"
    /\ shut.pending = 0
    /\ shut' = ToPool(shut)

\* the timer of GRACEFUL_SHUTDOWN_TIMEOUT - 5000 wins the race
DestroyTimeout ==
    /\ shut.pc = "destroy"
    /\ shut' = ToPool(shut)

\* pool.end() resolves or rejects: the finally block arms the exit timer
PoolEnded ==
    /\ shut.pc = "pool"
    /\ shut' = [shut EXCEPT !.pc = "exit"]

\* the 1 s timer of the finally block: process.exit(0)
ProcessExit ==
    /\ shut.pc = "exit"
    /\ shut' = [shut EXCEPT !.pc = "exited"]

(* ---------------------------------------------------------------------- *)
(* checkAuthenticatedState: the promotion poll                             *)
(* ---------------------------------------------------------------------- *)
\* the ten polls of checkAuthenticatedState (`attempt < 10`), scaled
PROMOTION_POLLS == 3
MaxChains == 2

ChainIds == 1..MaxChains

\* one closure checkAuthenticatedState: pc is "free" (never started),
\* "timer" (its setTimeout is pending), "sync" (suspended at the evaluate
\* that forces the synchronisation), "state" (suspended at getState()) or
\* "done"; attempt is its argument; polls counts its getState() calls; last
\* is what its last getState() gave ("" before, "ERROR" for a rejection)
NoChain == [pc |-> "free", attempt |-> 0, polls |-> 0, last |-> ""]

\* status: the status of the registered session, "NONE" without session
NoPromo == [status |-> "NONE", chains |-> [i \in ChainIds |-> NoChain]]

\* what getState() gives a poll
PollResults == {"CONNECTED", "OPENING", "ERROR"}

\* (variant) one poll more
MorePollsInclusive(attempt) == attempt <= PROMOTION_POLLS

\* `if (attempt < 10)`: another check is scheduled
MorePolls(attempt) == attempt < PROMOTION_POLLS

\* `attempt === 2 || attempt === 5`: the check first forces the
\* synchronisation in the page
ForceSync(attempt) == attempt \in {2, 5}

FreeChains == {i \in ChainIds : promo.chains[i].pc = "free"}

\* startSession registers a session (status INITIALIZING)
PromoStart ==
    /\ promo.status = "NONE"
    /\ promo' = [promo EXCEPT !.status = "INITIALIZING"]

\* 'authenticated': the status is set and checkAuthenticatedState(1) is
\* scheduled after 10 s
PromoAuthenticated ==
    /\ promo.status # "NONE"
    /\ FreeChains # {}
    /\ LET i == CHOOSE c \in FreeChains : \A d \in FreeChains : c <= d
       IN  promo' = [promo EXCEPT
               !.status = "AUTHENTICATED",
               !.chains[i] = [NoChain EXCEPT !.pc = "timer", !.attempt = 1]]

\* another handler writes the status ('ready', 'loading_screen',
\* 'disconnected' before its delete, ..)
PromoStatus(st) ==
    /\ promo.status \notin {"NONE", st}
    /\ promo' = [promo EXCEPT !.status = st]

\* the session is deleted
PromoDeleted ==
    /\ promo.status # "NONE"
    /\ promo' = [promo EXCEPT !.status = "NONE"]

\* the timer of chain i fires: checkAuthenticatedState(attempt) returns at
\* once unless the status is AUTHENTICATED; otherwise, when the page is
\* open, it calls getState() (after the evaluate of a ForceSync attempt),
\* and goes to the end of the check when the page is closed
PromoCheck(i, pageOpen) ==
    LET ch == promo.chains[i]
    IN  /\ ch.pc = "timer"
        /\ IF promo.status # "AUTHENTICATED"
           THEN promo' = [promo EXCEPT !.chains[i].pc = "done"]
           ELSE IF pageOpen
                THEN IF ForceSync(ch.attempt)
                     THEN promo' = [promo EXCEPT !.chains[i].pc = "sync"]
                     ELSE promo' = [promo EXCEPT
                                      !.chains[i].pc = "state",
                                      !.chains[i].polls = ch.polls + 1]
                ELSE IF MorePolls(ch.attempt)
                     THEN promo' = [promo EXCEPT
                                      !.chains[i].attempt = ch.attempt + 1]
                     ELSE promo' = [promo EXCEPT !.status = "SYNC_TIMEOUT",
                                                 !.chains[i].pc = "done"]

\* the evaluate of chain i settles (an error is only logged): getState()
\* is called, the status is not read again
PromoSynced(i) ==
    /\ promo.chains[i].pc = "sync"
    /\ promo' = [promo EXCEPT !.chains[i].pc = "state",
                              !.chains[i].polls = promo.chains[i].polls + 1]

\* getState() of chain i settles: CONNECTED promotes the session the check
\* holds and ends the chain; anything else schedules the next check, or
\* after the last one sets SYNC_TIMEOUT when the status is still
\* AUTHENTICATED
PromoPolled(i, state) ==
    LET ch == promo.chains[i]
    IN  /\ ch.pc = "state"
        /\ IF state = "CONNECTED"
           THEN promo' = [promo EXCEPT
                    !.status = IF promo.status = "NONE" THEN @ ELSE "CONNECTED",
                    !.chains[i].pc = "done", !.chains[i].last = state]
           ELSE IF MorePolls(ch.attempt)
                THEN promo' = [promo EXCEPT
                         !.chains[i].pc = "timer",
                         !.chains[i].attempt = ch.attempt + 1,
                         !.chains[i].last = state]
                ELSE promo' = [promo EXCEPT
                         !.status = IF promo.status = "AUTHENTICATED"
                                    THEN "SYNC_TIMEOUT" ELSE @,
                         !.chains[i].pc = "done", !.chains[i].last = state]

(* ---------------------------------------------------------------------- *)
(* startKeepAlive: the heartbeat and the watchdog                          *)
(* ---------------------------------------------------------------------- *)
\* RESILIENCE_CONFIG.MAX_CONSECUTIVE_FAILURES (10), MAX_CONTEXT_ERRORS (15)
\* and PING_TIMEOUT_THRESHOLD (600 s, in ticks), scaled to the model
MAX_CONSECUTIVE_FAILURES == 3
MAX_CONTEXT_ERRORS == 3
PING_TIMEOUT_THRESHOLD == 2
MaxSince == 3

\* what getState() resolves to
AdapterStates == {"CONNECTED", "CONFLICT", "OPENING"}

\* sess: a CONNECTED session with its probes armed is registered;
\* state: the adapter's state; pinged, since: lastSuccessfulPing is set, and
\* the time since; pending: the reason of the reconnect scheduled, "" when
\* none
NoBeat == [sess |-> FALSE, state |-> "CONNECTED", consecutiveFailures |-> 0,
           contextErrors |-> 0, pinged |-> FALSE, since |-> 0,
           pending |-> ""]

\* handleConnectionLoss: the session is destroyed and deleted, a restart
\* timer armed
BeatConnectionLoss(reason) ==
    [NoBeat EXCEPT !.state = beat.state, !.pending = reason]

\* the restart timer has fired and the new session has become CONNECTED
\* ('ready' calls startKeepAlive), or the first session has
BeatReady ==
    /\ ~beat.sess
    /\ \E st \in AdapterStates : beat' = [NoBeat EXCEPT !.sess = TRUE, !.state = st]

\* the adapter's state changes
BeatAdapter(st) ==
    /\ beat.sess
    /\ beat.state # st
    /\ beat' = [beat EXCEPT !.state = st]

\* time passes
BeatTick ==
    /\ beat.sess
    /\ beat.pinged
    /\ beat.since < MaxSince
    /\ beat' = [beat EXCEPT !.since = beat.since + 1]

\* one run of the keepAlive interval; outcome: getState() resolved
\* ("state"), was rejected with a context error ("context") or with another
\* error or the timeout ("error"), or the browser or page was found gone
Heartbeat(outcome) ==
    /\ beat.sess
    /\ CASE outcome = "browser" ->
              \E reason \in {"BROWSER_DEAD", "PAGE_CLOSED"} :
                  beat' = BeatConnectionLoss(reason)
         [] outcome = "state" ->
              beat' = [beat EXCEPT
                  !.pinged = TRUE, !.since = 0, !.contextErrors = 0,
                  !.consecutiveFailures =
                      IF beat.state \in {"CONNECTED", "CONFLICT"} THEN 0
                      ELSE 0 + 1]
         [] outcome = "context" ->
              IF beat.contextErrors + 1 >= MAX_CONTEXT_ERRORS
              THEN beat' = BeatConnectionLoss("CONTEXT_ERRORS")
              ELSE beat' = [beat EXCEPT !.contextErrors = @ + 1]
         [] OTHER ->
              IF beat.consecutiveFailures + 1 >= MAX_CONSECUTIVE_FAILURES
              THEN beat' = BeatConnectionLoss("CONSECUTIVE_HEARTBEAT_FAILURES")
              ELSE beat' = [beat EXCEPT !.consecutiveFailures = @ + 1]

\* one run of the watchdog interval
Watchdog ==
    /\ beat.sess
    /\ IF beat.pinged /\ beat.since > PING_TIMEOUT_THRESHOLD
       THEN beat' = BeatConnectionLoss("WATCHDOG_NO_PING")
       ELSE beat' = beat

(* ---------------------------------------------------------------------- *)
(* The steps of forceReconnect and handleConnectionLoss                    *)
(* ---------------------------------------------------------------------- *)
\* the reasons the callers of forceReconnect and the probes give
ForceReasons == {"LOADING_TRAVADO", "SEM_PING_SUCESSO", "PAGINA_FECHADA"}
LossReasons == {"BROWSER_DEAD", "WATCHDOG_NO_PING"}

\* sess: a SessionState is registered; listeners: the handlers startSession
\* attached to the client are attached; client: "none", "live", "dead"
\* (destroy resolved) or "hung" (DESTROY_TIMEOUT won the race); path, pc,
\* reason: the reconnect under way ("fr" or "hcl"), where it is ("destroy",
\* "persist", "timer") and its reason; row, rowReason: connection_status and
\* last_disconnect_reason of the instance's row
NoTear == [sess |-> FALSE, isReconnecting |-> FALSE, intervals |-> FALSE,
           listeners |-> FALSE, client |-> "none", path |-> "", pc |-> "",
           reason |-> "", row |-> "DISCONNECTED", rowReason |-> ""]

\* startSession as far as the teardown goes: the status write, the client
\* with its handlers, the SessionState
TearStarted(t) ==
    [t EXCEPT !.sess = TRUE, !.isReconnecting = FALSE, !.intervals = FALSE,
              !.listeners = TRUE, !.client = "live", !.row = "INITIALIZING"]

\* a sweep or a request starts the session
TearStartSession ==
    /\ ~tear.sess
    /\ tear.pc \in {"", "timer"}
    /\ tear' = TearStarted(tear)

\* 'ready' of the client: startKeepAlive, the row is written CONNECTED
TearReady ==
    /\ tear.sess
    /\ tear.listeners
    /\ tear.client = "live"
    /\ tear' = [tear EXCEPT !.intervals = TRUE, !.row = "CONNECTED"]

\* forceReconnect up to `await Promise.race([destroy, DESTROY_TIMEOUT])`, or
\* without session up to `await updateInstanceStatus`
TearForce(reason) ==
    /\ tear.pc = ""
    /\ IF tear.sess
       THEN tear' = [tear EXCEPT !.isReconnecting = TRUE, !.intervals = FALSE,
                                 !.listeners = FALSE, !.path = "fr",
                                 !.pc = "destroy", !.reason = reason]
       ELSE tear' = [tear EXCEPT !.path = "fr", !.pc = "persist",
                                 !.reason = reason]

\* handleConnectionLoss, called by a probe, up to the same await
TearLoss(reason) ==
    /\ tear.pc = ""
    /\ tear.sess
    /\ tear.intervals
    /\ ~tear.isReconnecting
    /\ tear' = [tear EXCEPT !.isReconnecting = TRUE, !.intervals = FALSE,
                            !.listeners = FALSE, !.path = "hcl",
                            !.pc = "destroy", !.reason = reason]

\* the race is over: the session is deleted, the status write is awaited
TearDestroyed(outcome) ==
    /\ tear.pc = "destroy"
    /\ tear' = [tear EXCEPT !.sess = FALSE, !.isReconnecting = FALSE,
                            !.client = outcome, !.pc = "persist"]

\* what the reconnect writes to the row: forceReconnect
\* updateInstanceStatus(instanceId, 0, null, RECONNECTING, reason),
\* handleConnectionLoss updateInstanceStatus(instId, 0)
TearRow(t) ==
    IF t.path = "fr"
    THEN [t EXCEPT !.row = "RECONNECTING", !.rowReason = t.reason]
    ELSE [t EXCEPT !.row = "DISCONNECTED"]

\* the status write is done: the delay is computed, the restart timer set
TearPersisted ==
    /\ tear.pc = "persist"
    /\ tear' = [TearRow(tear) EXCEPT !.pc = "timer"]

\* the restart timer fires: startSession unless a session is registered
TearTimer ==
    /\ tear.pc = "timer"
    /\ LET t == [tear EXCEPT !.path = "", !.pc = "", !.reason = ""]
       IN  tear' = IF tear.sess THEN t ELSE TearStarted(t)

(* ---------------------------------------------------------------------- *)
(* The auth-blob store: RemoteAuth over MysqlStore, for one session name.  *)
(* Every method is split at its awaits; the client library and the server  *)
(* call the methods, and the backup interval ticks, in any order.          *)
(* ---------------------------------------------------------------------- *)

\* concurrent runs of the backup interval's callback the model follows
MaxBackups == 2

BackupIds == 1..MaxBackups

\* row: the store holds a blob under the name; dir: userDataDir exists;
\* status: session.status in the server; adapter: the last adapter state the
\* change_state handler saw; running: _afterAuthReadyRunning; backupSync: the
\* interval is armed; ready, tick[i], logout, needed, before: where
\* afterAuthReady, a run of the interval's callback, logout,
\* onAuthenticationNeeded and beforeBrowserInitialized are suspended ("" when
\* not running); "save", "delete" and "extract" are the store's calls in
\* flight
NoAuth == [row |-> FALSE, dir |-> FALSE, status |-> "INITIALIZING",
           adapter |-> "", running |-> FALSE, backupSync |-> FALSE,
           ready |-> "", tick |-> [i \in BackupIds |-> ""], logout |-> "",
           needed |-> "", before |-> ""]

\* calls of MysqlStore.save, .delete and .extract not settled
Saving(a) ==
    Cardinality({i \in BackupIds : a.tick[i] = "save"})
        + (IF a.ready = "save" THEN 1 ELSE 0)

Deleting(a) ==
    (IF a.logout = "delete" THEN 1 ELSE 0)
        + (IF a.needed = "delete" THEN 1 ELSE 0)

Extracting(a) == IF a.before = "extract" THEN 1 ELSE 0

\* RemoteAuth.beforeBrowserInitialized up to the first await of
\* extractRemoteSession
BeforeBrowserInitialized ==
    /\ auth.before = ""
    /\ auth' = [auth EXCEPT !.before = "exists"]

\* extractRemoteSession after isValidPath and store.sessionExists: the local
\* directory is removed, then the blob is extracted or an empty directory made
ExtractChecked ==
    /\ auth.before = "exists"
    /\ auth' = IF auth.row
               THEN [auth EXCEPT !.before = "extract", !.dir = FALSE]
               ELSE [auth EXCEPT !.before = "", !.dir = TRUE]

\* MysqlStore.extract settles: the zip is written unless the row is gone, and
\* unCompressSession rejects on a zip that is not there
Extracted ==
    /\ auth.before = "extract"
    /\ auth' = [auth EXCEPT !.before = IF auth.row THEN "unzip" ELSE ""]

Uncompressed ==
    /\ auth.before = "unzip"
    /\ auth' = [auth EXCEPT !.before = "", !.dir = TRUE]

\* RemoteAuth.onAuthenticationNeeded up to store.sessionExists
OnAuthenticationNeeded ==
    /\ auth.needed = ""
    /\ auth' = [auth EXCEPT !.needed = "exists"]

NeededChecked ==
    /\ auth.needed = "exists"
    /\ auth' = [auth EXCEPT !.needed = IF auth.row THEN "delete" ELSE ""]

\* store.delete of onAuthenticationNeeded settles (a rejection is logged)
NeededDeleted(ok) ==
    /\ auth.needed = "delete"
    /\ auth' = [auth EXCEPT !.needed = "", !.row = IF ok THEN FALSE ELSE @]

\* RemoteAuth.logout up to store.sessionExists of deleteRemoteSession
Logout ==
    /\ auth.logout = ""
    /\ auth' = [auth EXCEPT !.logout = "exists"]

LogoutChecked ==
    /\ auth.logout = "exists"
    /\ auth' = [auth EXCEPT !.logout = IF auth.row THEN "delete" ELSE "rm"]

\* store.delete of logout settles; a rejection ends logout before the
\* directory is removed and the interval cleared
LogoutDeleted(ok) ==
    /\ auth.logout = "delete"
    /\ auth' = IF ok THEN [auth EXCEPT !.logout = "rm", !.row = FALSE]
                     ELSE [auth EXCEPT !.logout = ""]

LogoutRemoved ==
    /\ auth.logout = "rm"
    /\ auth' = [auth EXCEPT !.logout = "", !.dir = FALSE,
                            !.backupSync = FALSE]

\* RemoteAuth.disconnect(reason): the interval is cleared and the local
\* directory removed; the store is not called
AuthDisconnect ==
    /\ auth.status # "DISCONNECTED"
    /\ auth' = [auth EXCEPT !.backupSync = FALSE, !.dir = FALSE,
                            !.status = "DISCONNECTED", !.adapter = ""]

\* client.on('change_state') with UNPAIRED or UNPAIRED_IDLE
AuthUnpaired ==
    /\ auth.status # "DISCONNECTED"
    /\ auth.adapter # "UNPAIRED"
    /\ auth' = [auth EXCEPT !.adapter = "UNPAIRED", !.status = "QR_CODE"]

\* storeRemoteSession of one caller, whose position is pc: isValidPath, then
\* compressSession, then store.save, then the clean-up; without a directory
\* nothing is stored
StoreStep(pc, ok) ==
    CASE pc = "path" -> IF auth.dir THEN "zip" ELSE "done"
      [] pc = "zip" -> "save"
      [] pc = "save" -> IF ok THEN "clean" ELSE "failed"
      [] pc = "clean" -> "done"
      [] OTHER -> pc

RowAfter(pc, ok) == IF pc = "save" /\ ok THEN TRUE ELSE auth.row

\* RemoteAuth.afterAuthReady up to store.sessionExists; the browser that
\* authenticated was launched on the directory of beforeBrowserInitialized
AfterAuthReady ==
    /\ auth.before = "" /\ auth.dir
    /\ ~auth.running
    /\ auth.ready = ""
    /\ auth' = [auth EXCEPT !.running = TRUE, !.ready = "exists",
                            !.status = "CONNECTED", !.adapter = "CONNECTED"]

\* sessionExists settled, then the delay of 20 s or 10 s is over
ReadyDelayed ==
    /\ auth.ready \in {"exists", "delay"}
    /\ auth' = [auth EXCEPT !.ready = IF @ = "exists" THEN "delay" ELSE "path"]

\* a step of afterAuthReady's storeRemoteSession; after it the interval is
\* re-armed, and a rejection skips that; finally clears the flag
ReadyStored(ok) ==
    /\ auth.ready \in {"path", "zip", "save", "clean"}
    /\ LET pc == StoreStep(auth.ready, ok)
       IN auth' = [auth EXCEPT
               !.row = RowAfter(auth.ready, ok),
               !.ready = IF pc \in {"done", "failed"} THEN "" ELSE pc,
               !.running = pc \notin {"done", "failed"},
               !.backupSync = IF pc = "done" THEN TRUE ELSE @]

\* the backup interval fires: its callback calls storeRemoteSession
BackupTick(i) ==
    /\ auth.backupSync
    /\ auth.tick[i] = ""
    /\ \A j \in BackupIds : j < i => auth.tick[j] # ""
    /\ auth' = [auth EXCEPT !.tick[i] = "path"]

\* a step of the callback's storeRemoteSession; a rejection is logged
BackupStored(i, ok) ==
    /\ auth.tick[i] # ""
    /\ LET pc == StoreStep(auth.tick[i], ok)
       IN auth' = [auth EXCEPT
               !.row = RowAfter(auth.tick[i], ok),
               !.tick[i] = IF pc \in {"done", "failed"} THEN "" ELSE pc]

(* ---------------------------------------------------------------------- *)
(* The probe timers and the session they were armed for: the SessionState  *)
(* objects made for one instance are numbered in the order startSession    *)
(* made them; a keepAlive interval keeps the object it was armed for in    *)
(* its closure (currentSession) and looks the registered one up by id.     *)
(* ---------------------------------------------------------------------- *)

\* how many SessionState objects are made for the instance
MaxGens == 3

GenIds == 1..MaxGens

\* gen: objects made so far, the last one registered iff reg; status: of the
\* registered object; flag[g]: isReconnecting of object g; armed: the objects
\* whose keepAlive interval runs; alive: the objects whose browser is
\* connected; api: where stopSession ("stop") or POST /api/session/reconnect
\* ("reconnect", "wait") is suspended; hcl: where handleConnectionLoss is
\* suspended ("destroy", "timer"), by: the object whose interval called it,
\* target: the object it found registered and tears down
NoProbe == [gen |-> 0, reg |-> FALSE, status |-> "",
            flag |-> [g \in GenIds |-> FALSE], armed |-> {}, alive |-> {},
            api |-> "", hcl |-> "", by |-> 0, target |-> 0]

\* startSession, from getOrCreate on: a new SessionState with a new client
ProbeStarted(p) ==
    [p EXCEPT !.gen = p.gen + 1, !.reg = TRUE, !.status = "INITIALIZING",
              !.flag[p.gen + 1] = FALSE, !.alive = @ \cup {p.gen + 1}]

\* POST /api/session/start
ProbeStartSession ==
    /\ ~probe.reg
    /\ probe.gen < MaxGens
    /\ probe' = ProbeStarted(probe)

\* client.on('ready'): CONNECTED and startKeepAlive, which clears the
\* intervals of the registered session and arms new ones
ProbeReady ==
    /\ probe.reg
    /\ probe.status # "CONNECTED"
    /\ probe.gen \in probe.alive
    /\ probe' = [probe EXCEPT !.status = "CONNECTED",
                              !.armed = @ \cup {probe.gen}]

\* the browser of the registered session dies
ProbeBrowserDies ==
    /\ probe.reg
    /\ probe.gen \in probe.alive
    /\ probe' = [probe EXCEPT !.alive = @ \ {probe.gen}]

\* stopSession up to `await session.client.destroy()`
StopSession ==
    /\ probe.reg
    /\ probe.api = ""
    /\ probe' = [probe EXCEPT !.api = "stop"]

\* POST /api/session/reconnect up to `await session.client.destroy()`
ApiReconnect ==
    /\ probe.reg
    /\ probe.api = ""
    /\ probe' = [probe EXCEPT !.api = "reconnect"]

\* the destroy of stopSession or of the reconnect request settles:
\* sessions.delete(instanceId) on the raw map, which clears no interval
ApiDestroyed ==
    /\ probe.api \in {"stop", "reconnect"}
    /\ probe' = [probe EXCEPT
            !.api = IF @ = "stop" THEN "" ELSE "wait",
            !.alive = IF probe.reg THEN @ \ {probe.gen} ELSE @,
            !.reg = FALSE]

\* the 2 s of the reconnect request are over: startSession
ApiRestart ==
    /\ probe.api = "wait"
    /\ probe' = IF probe.reg \/ probe.gen >= MaxGens
                THEN [probe EXCEPT !.api = ""]
                ELSE ProbeStarted([probe EXCEPT !.api = ""])

\* `if (currentSession.isReconnecting) return` of the keepAlive callback of
\* object g: the flag of the object in the closure
KeepAlivePasses(g) == ~probe.flag[g]

\* the keepAlive interval of object g fires and finds the browser of g dead:
\* handleConnectionLoss(instanceId, 'BROWSER_DEAD') up to its destroy, on the
\* session registered under the id
KeepAliveBrowserDead(g) ==
    /\ g \in probe.armed
    /\ probe.reg /\ probe.status = "CONNECTED"
    /\ KeepAlivePasses(g)
    /\ g \notin probe.alive
    /\ ~probe.flag[probe.gen]
    /\ probe.hcl = ""
    /\ probe' = [probe EXCEPT !.flag[probe.gen] = TRUE,
                              !.armed = @ \ {probe.gen},
                              !.hcl = "destroy", !.by = g,
                              !.target = probe.gen]

\* the destroy of handleConnectionLoss settles: sessions.delete(instId)
ProbeLossDestroyed ==
    /\ probe.hcl = "destroy"
    /\ probe' = [probe EXCEPT !.hcl = "timer", !.reg = FALSE,
                              !.alive = @ \ {probe.target}]

\* the restart timer of handleConnectionLoss
ProbeLossRestart ==
    /\ probe.hcl = "timer"
    /\ LET p == [probe EXCEPT !.hcl = "", !.by = 0, !.target = 0]
       IN  probe' = IF probe.reg \/ probe.gen >= MaxGens THEN p
                    ELSE ProbeStarted(p)

(* ---------------------------------------------------------------------- *)
(* The instance while the process shuts down: what startSession, the        *)
(* restart timers and the 'ready' handler do once _handleShutdown has begun *)
(* ---------------------------------------------------------------------- *)

\* how many sessions the model starts for the instance
MaxStarts == 3

\* isShuttingDown: of the handler and of the session manager; sess: status
\* of the registered session ("none": not registered); client: its client is
\* "live" or "destroyed"; probes: its intervals are armed; timer: a restart
\* timer of forceReconnect is pending; pc: "start" while startSession awaits
\* its first write; down: where _handleShutdown is ("", "destroy", "exit",
\* "exited"); starts: sessions started so far
NoQuiet == [isShuttingDown |-> FALSE, sess |-> "none", client |-> "none",
            probes |-> FALSE, timer |-> FALSE, pc |-> "", down |-> "",
            starts |-> 0]

\* startSession up to `await updateInstanceStatus(... INITIALIZING)`: there
\* is no test of isShuttingDown
QuietCallStart(q) ==
    IF q.sess = "none" /\ q.pc = "" /\ q.starts < MaxStarts
    THEN [q EXCEPT !.pc = "start", !.starts = @ + 1]
    ELSE q

\* POST /api/session/start
QuietStartApi ==
    /\ quiet.down # "exited"
    /\ quiet.sess = "none" /\ quiet.pc = "" /\ quiet.starts < MaxStarts
    /\ quiet' = QuietCallStart(quiet)

\* startSession after the write: getOrCreate, the client, initialize
QuietStarted ==
    /\ quiet.down # "exited"
    /\ quiet.pc = "start"
    /\ quiet' = [quiet EXCEPT !.pc = "", !.sess = "INITIALIZING",
                              !.client = "live", !.probes = FALSE]

\* client.on('ready'): CONNECTED, startKeepAlive
QuietReady ==
    /\ quiet.down # "exited"
    /\ quiet.sess = "INITIALIZING"
    /\ quiet.client = "live"
    /\ quiet' = [quiet EXCEPT !.sess = "CONNECTED", !.probes = TRUE]

\* forceReconnect up to its setTimeout: the session is torn down and
\* deleted, the restart timer armed
QuietForceReconnect ==
    /\ quiet.down # "exited"
    /\ quiet.sess # "none"
    /\ ~quiet.timer
    /\ quiet' = [quiet EXCEPT !.sess = "none", !.client = "none",
                              !.probes = FALSE, !.timer = TRUE]

\* the restart timer of forceReconnect fires
QuietTimer ==
    /\ quiet.down # "exited"
    /\ quiet.timer
    /\ quiet' = QuietCallStart([quiet EXCEPT !.timer = FALSE])

\* _handleShutdown, steps 1 to 3: the flag, the registered intervals,
\* prepareForShutdown (the server registers no callback)
QuietSignal ==
    /\ ~quiet.isShuttingDown
    /\ quiet' = [quiet EXCEPT !.isShuttingDown = TRUE, !.probes = FALSE,
                              !.down = "destroy"]

\* step 4: the client of the registered session is destroyed (the session
\* stays registered), then the pool is closed
QuietDestroyed ==
    /\ quiet.down = "destroy"
    /\ quiet' = [quiet EXCEPT !.down = "exit",
                              !.client = IF quiet.sess # "none"
                                         THEN "destroyed" ELSE @]

\* process.exit(0), 1 s later
QuietExit ==
    /\ quiet.down = "exit"
    /\ quiet' = [quiet EXCEPT !.down = "exited"]

(* ---------------------------------------------------------------------- *)
(* The queue on its own: callers use the MessageQueue API directly         *)
(* ---------------------------------------------------------------------- *)
Enqueue ==
    /\ CanEnqueue
    /\ DoEnqueue

ProcessQueue ==
    /\ CanProcessQueue
    /\ DoProcessQueue(0)
    /\ nextMsg' = nextMsg /\ lastEnq' = NoEnq

ClearQueue ==
    /\ queues # 0
    /\ DoClearQueue
    /\ nextMsg' = nextMsg /\ lastEnq' = NoEnq

(* ====================================================================== *)
(* Specifications                                                          *)
(* ====================================================================== *)
InitQueue ==
    /\ queues = 0
    /\ arrays = [a \in ArrIds |-> <<>>]
    /\ messages = [id \in MsgIds |-> NewMessage]
    /\ nextMsg = 0
    /\ drains = [k \in DrainIds |-> IdleDrain]
    /\ lastEnq = NoEnq

InitServer ==
    /\ booted = FALSE
    /\ enabled \in BOOLEAN
    /\ sessions = <<>>
    /\ clients = [c \in CliIds |-> "free"]
    /\ tasks = EmptyBag
    /\ resp = NoResp
    /\ noRestart = ""
    /\ events = 0

InitBackoff == backoff = NoBackoff

InitRecon == recon = NoRecon

InitLoad == load = NoLoad

InitDb == db = NoDb

InitShut == shut = NoShut

InitPromo == promo = NoPromo

InitBeat == beat = NoBeat

InitTear == tear = NoTear

InitAuth == auth = NoAuth

InitProbe == probe = NoProbe

InitQuiet == quiet = NoQuiet

Init ==
    /\ InitQueue /\ InitServer /\ InitBackoff /\ InitRecon /\ InitLoad
    /\ InitDb /\ InitShut /\ InitPromo /\ InitBeat /\ InitTear /\ InitAuth /\ InitProbe /\ InitQuiet

\* a request, an adapter event or a failure the environment produces
Stimulus(A) ==
    /\ events < MaxEvents
    /\ A
    /\ events' = events + 1
    /\ UNCHANGED <<backoff, recon, load, db, shut, promo, beat, tear, auth, probe, quiet>>

\* a step of a handler that runs on, a timer, a monitor reacting to the state
Internal(A) == A /\ events' = events /\ UNCHANGED <<backoff, recon, load, db, shut, promo, beat, tear, auth, probe, quiet>>

\* a step of the queue: the server only loses the objects the step released
QueueStep(A) ==
    /\ A
    /\ CommitServer(sessions, clients, tasks, drains')
    /\ Same

\* DELETE /api/queue/:instanceId
ClearQueueApi == booted /\ QueueStep(ClearQueue)

\* the MessageQueue object driven through its API by arbitrary callers
NextQueue ==
    \/ Internal(QueueStep(Enqueue))
    \/ Internal(QueueStep(ProcessQueue))
    \/ \E k \in DrainIds : Internal(QueueStep(SendSucceeded(k)))
    \/ \E k \in DrainIds : Internal(QueueStep(SendFailed(k)))
    \/ \E k \in DrainIds : Internal(QueueStep(Resume(k)))
    \/ \E k \in DrainIds : Internal(QueueStep(Returned(k)))
    \/ Internal(QueueStep(ClearQueue))
    \/ Internal(QueueStep(CleanupExpired))
    \/ Internal(QueueStep(Tick))

InitQueueOnly == Init /\ ~enabled

SpecQueue == InitQueueOnly /\ [][NextQueue]_vars

\* the queue with every processQueue call on a queue that gets no further
\* message: enqueue is called only while no drain runs
NoDrainRuns == \A k \in DrainIds : drains[k].pc = "idle"

FillQueue == NoDrainRuns /\ Internal(QueueStep(Enqueue))

\* `await sendFunction(message)` of drain k settles, one way or the other
SendSettles(k) ==
    \/ Internal(QueueStep(SendSucceeded(k)))
    \/ Internal(QueueStep(SendFailed(k)))

\* a timer of drain k (500 ms, retryDelay) fires, or its caller takes the
\* result
DrainGoesOn(k) ==
    \/ Internal(QueueStep(Resume(k)))
    \/ Internal(QueueStep(Returned(k)))

NextDrain ==
    \/ FillQueue
    \/ Internal(QueueStep(ProcessQueue))
    \/ \E k \in DrainIds : SendSettles(k)
    \/ \E k \in DrainIds : DrainGoesOn(k)
    \/ Internal(QueueStep(ClearQueue))
    \/ Internal(QueueStep(CleanupExpired))
    \/ Internal(QueueStep(Tick))

\* a send that was handed to the adapter settles and a setTimeout fires
SpecDrain ==
    /\ InitQueueOnly
    /\ [][NextDrain]_vars
    /\ \A k \in DrainIds : WF_vars(SendSettles(k)) /\ WF_vars(DrainGoesOn(k))

\* the server
Next ==
    \/ Internal(InitDB)
    \/ Stimulus(SendText)
    \/ \E t \in Running : Internal(SendDone(t))
    \/ \E t \in Running : Internal(SendLost(t))
    \/ \E t \in Running : Internal(SendError(t))
    \/ Stimulus(EnableApi)
    \/ Stimulus(DisableApi)
    \/ Stimulus(StartApi)
    \/ Stimulus(ClearQueueApi)
    \/ \E t \in Running : Internal(StartPersisted(t))
    \/ \E t \in Running : Internal(InitDone(t))
    \/ \E t \in Running : Stimulus(InitFailed(t))
    \/ \E t \in Running : Internal(InitFailDone(t))
    \/ \E t \in Running : Internal(FRDestroyed(t))
    \/ \E t \in Running : Internal(FRPersisted(t))
    \/ \E t \in Running : Internal(FRTimer(t))
    \/ Stimulus(ProbeFailure)
    \/ \E t \in Running : Internal(HCLDestroyed(t))
    \/ \E t \in Running : Internal(HCLPersisted(t))
    \/ \E t \in Running : Internal(HCLTimer(t))
    \/ \E c \in CliIds : Stimulus(LoadingScreen(c))
    \/ \E c \in CliIds : Stimulus(ChangeStateConnected(c))
    \/ \E c \in CliIds : Stimulus(ChangeStateUnpaired(c))
    \/ \E c \in CliIds : Stimulus(Qr(c))
    \/ \E c \in CliIds : Stimulus(Authenticated(c))
    \/ Stimulus(PromotionCheck)
    \/ \E t \in Running : Internal(PromotionStore(t))
    \/ \E t \in Running : Internal(PromotionPersisted(t))
    \/ \E c \in CliIds : Stimulus(Ready(c))
    \/ \E t \in Running : Internal(ReadyPersisted(t))
    \/ \E t \in Running : Internal(ReadyTimer(t))
    \/ \E c \in CliIds, reason \in DisconnectReasons : Stimulus(Disconnected(c, reason))
    \/ \E t \in Running : Internal(DiscPersisted(t))
    \/ \E t \in Running : Internal(DiscDestroyed(t))
    \/ \E t \in Running : Internal(DiscDisabled(t))
    \/ \E t \in Running : Internal(DiscTimer(t))
    \/ \E t \in Running : Internal(DiscRestart(t))
    \/ Internal(HealthCheckNoClient)
    \/ Stimulus(HealthCheckUnhealthy)
    \/ Internal(CheckMissingInstances)
    \/ Stimulus(DeepHealthCheck)
    \/ Stimulus(RecoveryCheckMemory)
    \/ Internal(RecoveryCheckRows)
    \/ Stimulus(MemoryCheck)
    \/ \E k \in DrainIds : Internal(QueueStep(SendSucceeded(k)))
    \/ \E k \in DrainIds : Internal(QueueStep(SendFailed(k)))
    \/ \E k \in DrainIds : Internal(QueueStep(Resume(k)))
    \/ \E k \in DrainIds : Internal(QueueStep(Returned(k)))
    \/ Stimulus(QueueStep(Tick))

Spec == Init /\ [][Next]_vars

(* ---------------------------------------------------------------------- *)
(* The restart delays of one instance, episode after episode               *)
(* ---------------------------------------------------------------------- *)
\* the queue and the server stay as they are
MainSame ==
    UNCHANGED <<queues, arrays, messages, nextMsg, drains, lastEnq, booted,
                enabled, sessions, clients, tasks, resp, noRestart, events>>

NextBackoff ==
    \/ \E reason \in EpisodeReasons :
          EpisodeBegins(reason) /\ MainSame /\ UNCHANGED <<recon, load, db, shut, promo, beat, tear, auth, probe, quiet>>
    \/ \E jitter \in Jitters :
          DelayComputed(jitter) /\ MainSame /\ UNCHANGED <<recon, load, db, shut, promo, beat, tear, auth, probe, quiet>>

SpecBackoff == InitQueueOnly /\ [][NextBackoff]_vars

(* ---------------------------------------------------------------------- *)
(* The attempt count of one instance along its reconnects                  *)
(* ---------------------------------------------------------------------- *)
ReconStep(A) == A /\ MainSame /\ UNCHANGED <<backoff, load, db, shut, promo, beat, tear, auth, probe, quiet>>

NextRecon ==
    \/ ReconStep(ReconForce)
    \/ ReconStep(ReconLoss)
    \/ ReconStep(ReconDisconnected)
    \/ ReconStep(ReconTimer)
    \/ ReconStep(ReconSweep)
    \/ ReconStep(ReconStarted)
    \/ ReconStep(ReconInitialized)
    \/ ReconStep(ReconInitError)
    \/ ReconStep(ReconReady)
    \/ ReconStep(ReconPromoted)
    \/ ReconStep(ReconResetAfter)

SpecRecon == InitQueueOnly /\ [][NextRecon]_vars

(* ---------------------------------------------------------------------- *)
(* One loading session under the sweeps of startHealthCheck                *)
(* ---------------------------------------------------------------------- *)
LoadStep(A) == A /\ MainSame /\ UNCHANGED <<backoff, recon, db, shut, promo, beat, tear, auth, probe, quiet>>

SweepHealth == LoadStep(LoadHealthCheck)

SweepRecovery == LoadStep(LoadRecoveryCheck)

NextLoad ==
    \/ LoadStep(LoadStartSession)
    \/ LoadStep(LoadTimer)
    \/ LoadStep(LoadAdapter)
    \/ LoadStep(LoadAuthFailure)
    \/ LoadStep(LoadSyncTimeout)
    \/ LoadStep(LoadBrowserLost)
    \/ LoadStep(LoadTick)
    \/ SweepHealth
    \/ SweepRecovery

\* setInterval keeps both sweeps coming
SpecLoad ==
    /\ InitQueueOnly
    /\ [][NextLoad]_vars
    /\ WF_vars(SweepHealth)
    /\ WF_vars(SweepRecovery)

(* ---------------------------------------------------------------------- *)
(* One enabled instance and a metadata store that may fail                 *)
(* ---------------------------------------------------------------------- *)
DbStep(A) == A /\ MainSame /\ UNCHANGED <<backoff, recon, load, shut, promo, beat, tear, auth, probe, quiet>>

RestartTimer == DbStep(DbTimer)

SweepStore == DbStep(DbSweep)

NextDb ==
    \/ DbStep(DbInitDB)
    \/ DbStep(DbFails)
    \/ DbStep(DbRecovers)
    \/ DbStep(DbStartRequest)
    \/ DbStep(DbEnable)
    \/ DbStep(DbDisable)
    \/ DbStep(DbInitDone)
    \/ DbStep(DbDisconnected)
    \/ \E path \in {"fr", "hcl"} : DbStep(DbReconnect(path))
    \/ RestartTimer
    \/ SweepStore

\* setTimeout fires the restart timer; setInterval keeps the sweeps coming,
\* and a store that answers again and again is found answering by a sweep
SpecDb ==
    /\ InitQueueOnly
    /\ [][NextDb]_vars
    /\ WF_vars(RestartTimer)
    /\ SF_vars(SweepStore)

(* ---------------------------------------------------------------------- *)
(* The lifecycle on its own, with the timers that keep it going            *)
(* ---------------------------------------------------------------------- *)
\* the handlers whose next await is a database statement or a destroy that
\* the code bounds with DESTROY_TIMEOUT
HandlerGoesOn ==
    \E t \in Running :
        \/ Internal(ReadyPersisted(t))
        \/ Internal(DiscPersisted(t))
        \/ Internal(DiscDestroyed(t))
        \/ Internal(DiscDisabled(t))

SweepMissing == Internal(CheckMissingInstances)

SweepRows == Internal(RecoveryCheckRows)

NextLive ==
    \/ Internal(InitDB)
    \/ Stimulus(EnableApi)
    \/ Stimulus(DisableApi)
    \/ \E t \in Running : Internal(StartPersisted(t))
    \/ \E t \in Running : Internal(InitDone(t))
    \/ \E t \in Running : Stimulus(InitFailed(t))
    \/ \E t \in Running : Internal(InitFailDone(t))
    \/ Stimulus(HealthCheckUnhealthy)
    \/ Internal(HealthCheckNoClient)
    \/ \E t \in Running : Internal(FRDestroyed(t))
    \/ \E t \in Running : Internal(FRPersisted(t))
    \/ \E t \in Running : Internal(FRTimer(t))
    \/ Stimulus(ProbeFailure)
    \/ \E t \in Running : Internal(HCLDestroyed(t))
    \/ \E t \in Running : Internal(HCLPersisted(t))
    \/ \E t \in Running : Internal(HCLTimer(t))
    \/ \E c \in CliIds : Stimulus(Ready(c))
    \/ \E c \in CliIds, reason \in DisconnectReasons : Stimulus(Disconnected(c, reason))
    \/ \E t \in Running : Internal(DiscTimer(t))
    \/ \E t \in Running : Internal(DiscRestart(t))
    \/ HandlerGoesOn
    \/ SweepMissing
    \/ SweepRows

\* setInterval keeps firing healthCheck (with checkMissingInstances) and
\* instanceRecoveryCheck; a database statement and a bounded destroy return
SpecLive ==
    /\ Init
    /\ [][NextLive]_vars
    /\ WF_vars(SweepMissing)
    /\ WF_vars(SweepRows)
    /\ WF_vars(HandlerGoesOn)

(* ---------------------------------------------------------------------- *)
(* One session and the promotion polls of its 'authenticated' events       *)
(* ---------------------------------------------------------------------- *)
PromoStep(A) == A /\ MainSame /\ UNCHANGED <<backoff, recon, load, db, shut, beat, tear, auth, probe, quiet>>

NextPromo ==
    \/ PromoStep(PromoStart)
    \/ PromoStep(PromoAuthenticated)
    \/ \E st \in {"CONNECTED", "DISCONNECTED"} :
          PromoStep(PromoStatus(st))
    \/ PromoStep(PromoDeleted)
    \/ \E i \in ChainIds, pageOpen \in BOOLEAN :
          PromoStep(PromoCheck(i, pageOpen))
    \/ \E i \in ChainIds : PromoStep(PromoSynced(i))
    \/ \E i \in ChainIds, state \in PollResults :
          PromoStep(PromoPolled(i, state))

SpecPromo == InitQueueOnly /\ [][NextPromo]_vars

(* ---------------------------------------------------------------------- *)
(* One CONNECTED session under its heartbeat and watchdog                  *)
(* ---------------------------------------------------------------------- *)
BeatStep(A) ==
    A /\ MainSame /\ UNCHANGED <<backoff, recon, load, db, shut, promo, tear, auth, probe, quiet>>

KeepAlive ==
    \E outcome \in {"browser", "state", "context", "error"} :
        BeatStep(Heartbeat(outcome))

WatchdogRuns == BeatStep(Watchdog)

NextBeat ==
    \/ BeatStep(BeatReady)
    \/ \E st \in AdapterStates : BeatStep(BeatAdapter(st))
    \/ BeatStep(BeatTick)
    \/ KeepAlive
    \/ WatchdogRuns

\* setInterval keeps the heartbeat and the watchdog coming
SpecBeat ==
    /\ InitQueueOnly
    /\ [][NextBeat]_vars
    /\ WF_vars(KeepAlive)
    /\ WF_vars(WatchdogRuns)

(* ---------------------------------------------------------------------- *)
(* One session and the reconnects that tear it down                        *)
(* ---------------------------------------------------------------------- *)
TearStep(A) ==
    A /\ MainSame /\ UNCHANGED <<backoff, recon, load, db, shut, promo, beat, auth, probe, quiet>>

NextTear ==
    \/ TearStep(TearStartSession)
    \/ TearStep(TearReady)
    \/ \E reason \in ForceReasons : TearStep(TearForce(reason))
    \/ \E reason \in LossReasons : TearStep(TearLoss(reason))
    \/ \E outcome \in {"dead", "hung"} : TearStep(TearDestroyed(outcome))
    \/ TearStep(TearPersisted)
    \/ TearStep(TearTimer)

SpecTear == InitQueueOnly /\ [][NextTear]_vars

AuthStep(A) ==
    A /\ MainSame /\ UNCHANGED <<backoff, recon, load, db, shut, promo, beat, tear,
                           probe, quiet>>

NextAuth ==
    \/ AuthStep(BeforeBrowserInitialized)
    \/ AuthStep(ExtractChecked)
    \/ AuthStep(Extracted)
    \/ AuthStep(Uncompressed)
    \/ AuthStep(OnAuthenticationNeeded)
    \/ AuthStep(NeededChecked)
    \/ \E ok \in BOOLEAN : AuthStep(NeededDeleted(ok))
    \/ AuthStep(Logout)
    \/ AuthStep(LogoutChecked)
    \/ \E ok \in BOOLEAN : AuthStep(LogoutDeleted(ok))
    \/ AuthStep(LogoutRemoved)
    \/ AuthStep(AuthDisconnect)
    \/ AuthStep(AuthUnpaired)
    \/ AuthStep(AfterAuthReady)
    \/ AuthStep(ReadyDelayed)
    \/ \E ok \in BOOLEAN : AuthStep(ReadyStored(ok))
    \/ \E i \in BackupIds : AuthStep(BackupTick(i))
    \/ \E i \in BackupIds, ok \in BOOLEAN : AuthStep(BackupStored(i, ok))

SpecAuth == InitQueueOnly /\ [][NextAuth]_vars

ProbeStep(A) ==
    A /\ MainSame /\ UNCHANGED <<backoff, recon, load, db, shut, promo, beat, tear,
                                 auth, quiet>>

NextProbe ==
    \/ ProbeStep(ProbeStartSession)
    \/ ProbeStep(ProbeReady)
    \/ ProbeStep(ProbeBrowserDies)
    \/ ProbeStep(StopSession)
    \/ ProbeStep(ApiReconnect)
    \/ ProbeStep(ApiDestroyed)
    \/ ProbeStep(ApiRestart)
    \/ \E g \in GenIds : ProbeStep(KeepAliveBrowserDead(g))
    \/ ProbeStep(ProbeLossDestroyed)
    \/ ProbeStep(ProbeLossRestart)

SpecProbe == InitQueueOnly /\ [][NextProbe]_vars

QuietStep(A) ==
    A /\ MainSame /\ UNCHANGED <<backoff, recon, load, db, shut, promo, beat, tear,
                                 auth, probe>>

NextQuiet ==
    \/ QuietStep(QuietStartApi)
    \/ QuietStep(QuietStarted)
    \/ QuietStep(QuietReady)
    \/ QuietStep(QuietForceReconnect)
    \/ QuietStep(QuietTimer)
    \/ QuietStep(QuietSignal)
    \/ QuietStep(QuietDestroyed)
    \/ QuietStep(QuietExit)

SpecQuiet == InitQueueOnly /\ [][NextQuiet]_vars

(* ---------------------------------------------------------------------- *)
(* A shutdown signal and what _handleShutdown waits for                    *)
(* ---------------------------------------------------------------------- *)
ShutStep(A) == A /\ MainSame /\ UNCHANGED <<backoff, recon, load, db, promo, beat, tear, auth, probe, quiet>>

\* the timers _handleShutdown arms, and the settling of Promise.all
ShutdownTimers ==
    \/ ShutStep(CallbackTimeout)
    \/ ShutStep(AllDestroyed)
    \/ ShutStep(DestroyTimeout)
    \/ ShutStep(ProcessExit)

NextShut ==
    \/ ShutStep(ShutInit)
    \/ ShutStep(registerInterval)
    \/ ShutStep(onShutdown)
    \/ ShutStep(ShutSession)
    \/ ShutStep(HandleShutdown)
    \/ ShutStep(CallbackReturns)
    \/ ShutStep(WriteSettled)
    \/ ShutStep(ClientDestroyed)
    \/ ShutStep(PoolEnded)
    \/ ShutdownTimers

\* timers fire; a callback, a destroy or pool.end() may never complete
SpecShut ==
    /\ InitQueueOnly
    /\ [][NextShut]_vars
    /\ WF_vars(ShutdownTimers)

(* ---------------------------------------------------------------------- *)
(* The lifecycle with requests to send-media                               *)
(* ---------------------------------------------------------------------- *)
NextMedia ==
    \/ NextLive
    \/ Stimulus(SendMedia)
    \/ \E t \in Running : Internal(MediaDone(t))
    \/ \E t \in Running : Stimulus(MediaError(t))

SpecMedia == Init /\ [][NextMedia]_vars

(* ====================================================================== *)
(* Properties                                                              *)
(* ====================================================================== *)
\* how many of the suspended handlers satisfy keep
Count(tk, keep(_)) ==
    BagCardinality([t \in {x \in BagToSet(tk) : keep(x)} |-> tk[t]])

\* a restart timer that is pending, or a startSession a reconnect launched
IsReconnect(t) ==
    \/ t.kind \in {"fr", "hcl", "disc"} /\ t.pc = "timer"
    \/ t.kind = "start" /\ t.by \in {"fr", "hcl", "disc"}

\* C1 (single reconnect): in every reachable state at most one reconnect of
\* the instance exists, where a reconnect is a pending restart timer of
\* forceReconnect, handleConnectionLoss or the 'disconnected' handler, or a
\* running startSession that such a timer launched.
C1_SingleReconnect == Count(tasks, IsReconnect) <= 1

IsReadyHandler(t) == t.kind = "ready"

\* C2 (eventual delivery): every step that takes the instance to CONNECTED
\* while messages wait in its queue leaves a drain of that queue armed: the
\* 'ready' handler that will call processQueue after its delay is under way.
\* Without it the waiting messages are never handed to sendMessage.
C2_DrainOnConnected ==
    [][(~Connected /\ Connected' /\ getQueueSize > 0)
         => Count(tasks', IsReadyHandler) > 0]_vars

IsForceReconnect(t) == t.kind = "fr"

\* C3 (send-or-enqueue): a request is answered 200 only if the instance had
\* a session with status CONNECTED and a client when the request came; and a
\* request for an instance without session, without client or with another
\* status is answered 202 with queued = true, the message is the last of
\* the instance's queue, position is its 1-based index there, messageId is
\* its id, and a forceReconnect has been started.
C3_SendOrEnqueue ==
    [][/\ resp'.code = 200 => resp'.connected
       /\ (resp'.code # 0 /\ ~resp'.connected) =>
            /\ resp'.code = 202
            /\ resp'.queued
            /\ queues' # 0
            /\ resp'.position = Len(arrays'[queues'])
            /\ resp'.position >= 1
            /\ arrays'[queues'][resp'.position] = resp'.messageId
            /\ resp'.messageId = nextMsg'
            /\ nextMsg' = nextMsg + 1
            /\ Count(tasks', IsForceReconnect) = Count(tasks, IsForceReconnect) + 1
      ]_vars

C3_QueuedSecond == resp.code = 202 /\ ~resp.connected /\ resp.position = 2

\* how many leading messages of q are older than messageTimeout
RECURSIVE TooOldPrefix(_)
TooOldPrefix(q) ==
    IF q = <<>> THEN 0
    ELSE IF messages[Head(q)].age <= messageTimeout THEN 0
         ELSE 1 + TooOldPrefix(Tail(q))

\* C4 (TTL): whenever a processQueue invocation hands a message to the send
\* function (first attempt, next message or retry after the delay), the age
\* of that message is at most messageTimeout; and whenever an invocation
\* comes to the top of its loop, the messages at the head of its queue that
\* are older than messageTimeout are removed from the queue and each is
\* counted as failed.
C4_NoExpiredDispatch ==
    [][\A k \in DrainIds :
         /\ (drains'[k].pc = "sending" /\ drains'[k] # drains[k])
              => messages'[drains'[k].m].age <= messageTimeout
         /\ (drains[k].pc \in {"idle", "pause", "retrywait"}
               /\ drains'[k].pc \in {"sending", "done"})
              => LET a == drains'[k].a
                     n == TooOldPrefix(arrays[a])
                     before == IF drains[k].pc = "idle" THEN 0
                               ELSE drains[k].failed
                 IN  /\ arrays'[a] = SubSeq(arrays[a], n + 1, Len(arrays[a]))
                     /\ drains'[k].failed = before + n
      ]_vars

C4_DroppedThenSent ==
    \E k \in DrainIds :
        /\ drains[k].pc = "sending"
        /\ drains[k].why = "EXPIRED"
        /\ drains[k].failed >= 1

\* C5 (queue bound): in every reachable state of the MessageQueue, whatever
\* the interleaving of enqueue, processQueue, clearQueue and cleanupExpired,
\* the queue of the instance holds at most maxQueueSize messages.
C5_QueueBound == queues # 0 => Len(arrays[queues]) <= maxQueueSize

C5_FullAfterOverflow ==
    /\ queues # 0
    /\ Len(arrays[queues]) = maxQueueSize
    /\ lastEnq.full

\* C6 (overflow eviction): an enqueue on a queue that holds maxQueueSize
\* messages leaves the queue with its former messages but the head, in
\* their order, followed by the new message; the length stays maxQueueSize.
C6_OverflowEviction ==
    [][(nextMsg' = nextMsg + 1 /\ queues # 0
          /\ Len(arrays[queues]) = maxQueueSize)
         => /\ queues' = queues
            /\ arrays'[queues'] = Append(Tail(arrays[queues]), nextMsg')
            /\ Len(arrays'[queues']) = maxQueueSize
      ]_vars

C6_EvictedHead ==
    /\ lastEnq.full
    /\ queues # 0
    /\ lastEnq.position = maxQueueSize
    /\ arrays[queues][maxQueueSize] = lastEnq.messageId
    /\ lastEnq.messageId > maxQueueSize

\* the 'disconnected' handlers of an event with a reason of the list
IsFinalDisconnect(t) == t.kind = "disc" /\ t.reason \in NO_RECONNECT_REASONS

IsAutoStart(t) == t.kind = "start" /\ t.by # "api"

IsReconnectCall(t) == t.kind \in {"fr", "hcl"}

\* C8 (permanent disable): once the 'disconnected' handler has disabled the
\* instance for a reason of NO_RECONNECT_REASONS, and until an enable or
\* start request, no step begins a forceReconnect or handleConnectionLoss
\* and no step begins a startSession.
C8_PermanentDisable ==
    [][noRestart = "NO_RECONNECT" =>
         /\ Count(tasks', IsReconnectCall) <= Count(tasks, IsReconnectCall)
         /\ Count(tasks', IsAutoStart) <= Count(tasks, IsAutoStart)
      ]_vars

\* enabled and started up, but neither a SessionState nor a start or
\* reconnect that is scheduled or under way
Pending(t) ==
    \/ t.kind \in {"start", "fr", "hcl"}
    \/ t.kind = "disc" /\ t.pc \in {"timer", "persist2"}

Neither ==
    /\ booted
    /\ enabled
    /\ ~has
    /\ Count(tasks, Pending) = 0

C10_DisabledStaysDown ==
    [][(~enabled /\ ~enabled' /\ noRestart = "DISABLED")
         => /\ Count(tasks', IsReconnectCall) <= Count(tasks, IsReconnectCall)
            /\ Count(tasks', IsAutoStart) <= Count(tasks, IsAutoStart)
      ]_vars

\* C11 (probe gating): in every reachable state the registered SessionState,
\* while its isReconnecting flag is set, has none of its probe timers armed.
C11_ProbeGating == has /\ get.isReconnecting => ~get.intervals

\* C12 (backoff monotonicity): for a reason that is not immediate, as long
\* as the exponential delay of the earlier attempt is below
\* RECONNECT_MAX_DELAY, the delay computed for an attempt is not smaller
\* than the delay computed for the attempt before it, whatever the jitter
\* of the two computations.
C12_BackoffMonotone ==
    [][(/\ backoff.attempt >= 1
        /\ backoff'.attempt = backoff.attempt + 1
        /\ ~isImmediateReconnect(backoff.reason)
        /\ exponentialDelay(backoff.attempt - 1) < RECONNECT_MAX_DELAY)
         => backoff'.delay >= backoff.delay
      ]_vars

\* C13 (counter reset at maximum): the reconnectAttempts stored in the
\* registered session never exceeds MAX_RECONNECT_ATTEMPTS, and a reconnect
\* path that finds the count at MAX_RECONNECT_ATTEMPTS computes its delay
\* with attempt count 0.
C13_ResetAtMaximum ==
    [][/\ recon'.attempts <= MAX_RECONNECT_ATTEMPTS
       /\ (recon.pc = "" /\ recon'.pc = "timer"
             /\ recon'.seen >= MAX_RECONNECT_ATTEMPTS) => recon'.used = 0
      ]_vars

\* C20 (attempt count within one failure episode): when a reconnect of
\* forceReconnect, handleConnectionLoss or the disconnect handler has
\* restarted the session and CONNECTED was not reached meanwhile, the new
\* session carries the count the path found plus one (below the maximum).
C20_AttemptsGrowByOne ==
    [][(/\ recon.pc = "start" /\ recon.path \in {"fr", "hcl", "disc"}
        /\ recon'.sess = "up"
        /\ ~recon.connected /\ ~recon'.connected
        /\ recon.seen + 1 < MAX_RECONNECT_ATTEMPTS)
       => recon'.attempts = recon.seen + 1
      ]_vars

\* the reasons that name a session stuck in loading
StuckReasons == {"STUCK_IN_LOADING", "LOADING_TRAVADO", "RECOVERY_TRAVADA"}

\* the session is gone and a reconnect is scheduled for it
TornDown == ~load.sess /\ load.pending # ""

\* C14 as stated (stuck-in-loading recovery): whenever a session stuck in
\* loading is torn down, the reconnect scheduled carries a stuck/loading
\* reason.
C14_StuckReason ==
    [][(isStuckInLoading /\ ~load'.sess) => load'.pending \in StuckReasons]_vars

\* C14 (stuck-in-loading recovery), amended: a session stuck in loading is
\* eventually torn down with a reconnect scheduled, and the reason names it
\* stuck whenever its browser is connected and its page open.
C14_StuckRecovered ==
    /\ isStuckInLoading ~> TornDown
    /\ [][(isStuckInLoading /\ load.browser /\ ~load'.sess)
            => load'.pending \in StuckReasons]_vars

\* a stuck session with a live browser was torn down by healthCheck
C14_TornDownStuck ==
    TornDown /\ load.stuck /\ load.pending = "LOADING_TRAVADO"

\* C15 (database failure does not stop reconnection): once an enabled
\* instance has lost its session, a startSession for it eventually begins,
\* whether or not the calls to the metadata store are rejected meanwhile.
C15_ReconnectDespiteStore == db.owed ~> ~db.owed

\* C16 (send-media enqueue semantics): a send-media request for an instance
\* without session, or whose session is not CONNECTED, is answered 202 with
\* queued = true, its message is put in the instance's queue and a
\* forceReconnect is started.
C16_MediaEnqueued ==
    [][(resp'.code # 0 /\ ~resp'.connected) =>
            /\ resp'.code = 202
            /\ resp'.queued
            /\ nextMsg' = nextMsg + 1
            /\ Count(tasks', IsForceReconnect) = Count(tasks, IsForceReconnect) + 1
      ]_vars

\* C17 (shutdown always terminates): once a shutdown signal has been
\* handled, process.exit is eventually reached, whichever of the callbacks,
\* destroys, store writes and pool.end() never complete.
C17_ShutdownTerminates == shut.isShuttingDown ~> shut.pc = "exited"

\* C18 (client handle and status): the registered SessionState has a client
\* exactly when its status is neither DISCONNECTED nor INIT_ERROR.
C18_ClientIffStatus ==
    has => (get.client # 0 <=> get.status \notin {"DISCONNECTED", "INIT_ERROR"})

\* C19 (persist-before-report): whenever the status of the registered
\* session becomes CONNECTED, the write persisting CONNECTED for it has been
\* issued by then.
C19_PersistBeforeReport ==
    [][(/\ has' /\ get'.status = "CONNECTED"
        /\ ~(has /\ get.status = "CONNECTED"))
       => get'.written]_vars

\* C21 (counter cleared only after a long CONNECTED): the reconnectAttempts
\* of the registered session goes from a positive value to 0 only in a step
\* taken while the session is CONNECTED (the reset at the maximum apart); a
\* session that was not CONNECTED before the step does not lose its count.
C21_ClearedOnlyWhenConnected ==
    [][(/\ recon.sess # "none" /\ recon'.sess # "none"
        /\ recon.attempts > 0
        /\ recon.attempts < MAX_RECONNECT_ATTEMPTS
        /\ recon'.attempts = 0)
       => recon.connected]_vars

ChainActive(i) == promo.chains[i].pc \in {"timer", "sync", "state"}

\* C23 (one promotion chain): at most one promotion polling chain of the
\* session is pending or running at any moment.
C23_SingleChain == Cardinality({i \in ChainIds : ChainActive(i)}) <= 1

\* C24 (every path into CONNECTED): whichever handler takes the session into
\* CONNECTED ('ready', 'change_state' CONNECTED or the promotion poll), the
\* reconnect attempt count is reset in that step.
C24_ConnectedResetsAttempts ==
    [][(recon.sess # "none" /\ ~recon.connected /\ recon'.connected)
         => recon'.attempts = 0]_vars

\* C25 (no automatic reconnect after auth_failure): a session whose status is
\* AUTH_FAILURE is not torn down for a reconnect by the health check or the
\* recovery sweep.
C25_AuthFailureLeftAlone ==
    [][(load.sess /\ load.status = "AUTH_FAILURE") => load'.sess]_vars

\* C26 (probes armed exactly while CONNECTED): when the status of the
\* registered session leaves CONNECTED, its probe timers are cancelled in
\* that step.
C26_ProbesClearedOnExit ==
    [][(has /\ get.status = "CONNECTED" /\ get.intervals
          /\ has' /\ get'.status # "CONNECTED")
         => ~get'.intervals]_vars

\* the adapter of the CONNECTED session is in a state that is neither
\* CONNECTED nor CONFLICT
Anomalous == beat.sess /\ beat.state \notin {"CONNECTED", "CONFLICT"}

InitFailureHandled ==
    \E t \in Running :
        /\ t.kind = "start" /\ t.pc = "initfail"
        /\ tasks' = Finish(t)

\* a restart of the instance is scheduled or under way
RestartPending(tk) ==
    \E u \in BagToSet(tk) :
        \/ u.kind \in {"fr", "hcl", "disc"}
        \/ u.kind = "start"

\* C28 (init failure handling): when the handling of a failed initialize()
\* ends, the session is gone and a reconnect for the instance is scheduled.
C28_InitFailureReconnects ==
    [][InitFailureHandled => (~has' /\ RestartPending(tasks'))]_vars

\* C29 (drain stops early): while the instance is not CONNECTED, a running
\* processQueue hands no further message to its send function.
C29_DrainStopsEarly ==
    [][\A k \in DrainIds :
          (drains[k].pc \in {"pause", "retrywait"} /\ ~Connected)
            => drains'[k].pc # "sending"]_vars

\* the processQueue invocations whose send of message id is in flight
InFlight(id) == {k \in DrainIds : drains[k].pc = "sending" /\ drains[k].m = id}

\* C30 (retry policy): no message is attempted more than maxRetries times:
\* the sends of a message that have failed and those in flight are together
\* at most maxRetries.
C30_AttemptsBounded ==
    \A id \in LiveMsgs :
        messages[id].retries + Cardinality(InFlight(id)) <= maxRetries

\* C31 (reconnector step order): a reconnect has set isReconnecting,
\* cancelled the probe timers and removed the client's handlers when it calls
\* destroy; it has removed the SessionState when it writes the row; and when
\* it schedules the restart the row holds RECONNECTING and its reason.
C31_ReconnectSteps ==
    [][/\ (tear.pc # "destroy" /\ tear'.pc = "destroy")
            => tear'.isReconnecting /\ ~tear'.intervals /\ ~tear'.listeners
       /\ (tear.pc = "destroy" /\ tear'.pc = "persist") => ~tear'.sess
       /\ (tear.pc = "persist" /\ tear'.pc = "timer")
            => tear'.row = "RECONNECTING" /\ tear'.rowReason = tear.reason
      ]_vars

C33_StoreSerialised ==
    /\ Saving(auth) <= 1
    /\ Saving(auth) = 1 => Deleting(auth) = 0 /\ Extracting(auth) = 0

\* C34 (UNPAIRED deletes the stale blob, a disconnect never does): the step
\* that observes UNPAIRED leaves the session in the QR state with the stored
\* blob gone or its delete in flight, and a disconnect neither removes the
\* blob nor starts a delete.
C34_UnpairedDeletesBlob ==
    [][/\ (auth.adapter # "UNPAIRED" /\ auth'.adapter = "UNPAIRED")
            => /\ auth'.status \in {"QR_CODE", "QR_REQUIRED"}
               /\ ~auth'.row \/ Deleting(auth') > 0
       /\ (auth.status # "DISCONNECTED" /\ auth'.status = "DISCONNECTED")
            => auth'.row = auth.row /\ Deleting(auth') = Deleting(auth)
      ]_vars

\* C35 (drain removal is exact): the message a drain removes after a send
\* that succeeded is the message it sent, and no message is in the hands of
\* two sends at once, whatever overlaps the drain (a second drain, an
\* enqueue that evicts the head, cleanupExpired).
C35_ExactRemoval ==
    /\ [](\A id \in LiveMsgs : Cardinality(InFlight(id)) <= 1)
    /\ [][\A k \in DrainIds :
            (/\ drains[k].pc = "sending"
             /\ drains'[k].pc = "pause"
             /\ arrays[drains[k].a] # <<>>)
                => Head(arrays[drains[k].a]) = drains[k].m]_vars

\* C36 (probes are bound to their own session): a teardown that a probe
\* timer has begun is the teardown of the session the timer was armed for.
C36_ProbesOwnSession == probe.hcl # "" => probe.by = probe.target

\* C37 (a session waiting for a QR scan is exempt from stuck detection): a
\* registered session whose status the 'qr' event has set and whose browser
\* is alive is not torn down by a sweep.
C37_QrWaitingExempt ==
    [][(load.sess /\ load.browser /\ load.status = "QR_CODE")
          => load'.sess]_vars

\* C38 (shutdown is quiescent): once the shutdown has begun, no step calls
\* startSession, registers a session or arms probe timers.
C38_ShutdownQuiescent ==
    [][quiet.isShuttingDown =>
          /\ quiet'.starts = quiet.starts
          /\ quiet'.sess # "none" => quiet.sess # "none"
          /\ quiet'.probes => quiet.probes]_vars

\* C39 (one live client per instance): at no time do two clients made for
\* the instance have a running browser, whatever startSession calls overlap.
C39_OneLiveClient ==
    Cardinality({c \in CliIds : clients[c] \in {"live", "silent"}}) <= 1

\* what drain d has counted
Tally(d) == IF d.pc = "idle" THEN 0 ELSE d.processed + d.failed

\* C40 (drain terminates): on a queue that gets no further message every
\* processQueue call returns; when it returns the array it iterated is
\* empty; and whenever its counters grow, the array has lost as many
\* messages in that step, so that processed + failed is the number of
\* messages the call removed.
C40_DrainTerminates ==
    /\ \A k \in DrainIds : (drains[k].pc # "idle") ~> (drains[k].pc = "done")
    /\ [][\A k \in DrainIds :
            (drains[k].pc # "done" /\ drains'[k].pc = "done")
                => arrays'[drains'[k].a] = <<>>]_vars
    /\ [][\A k \in DrainIds :
            (drains'[k].pc # "idle" /\ Tally(drains'[k]) # Tally(drains[k]))
                => Tally(drains'[k]) - Tally(drains[k])
                     = Len(arrays[drains'[k].a]) - Len(arrays'[drains'[k].a])
         ]_vars

====
